---- MODULE Spec2Model ----
(***************************************************************************)
(* Model of the CAPA response-grading engine                               *)
(* (common/lib/capa/capa/responsetypes.py).                                *)
(*                                                                         *)
(* Spec      : the asynchronous external-grading state machine of          *)
(*             CodeResponse / OpenEndedResponse (get_score, update_score)  *)
(*             acting on the persisted CorrectMap of one (student,problem).*)
(* SpecParse : the two _parse_score_msg functions applied to grader        *)
(*             replies drawn from a bounded set.                           *)
(* SpecInit  : LoncapaResponse.__init__ applied to response definitions    *)
(*             drawn from a bounded set.                                   *)
(* SpecCustom    : CustomResponse.get_score over the shapes a check        *)
(*                 function or script can produce.                         *)
(* SpecImage     : ImageResponse.get_score over rectangles, regions and    *)
(*                 clicks on a small grid.                                 *)
(* SpecChoice    : ChoiceResponse.get_score over choice lists and answers. *)
(* SpecNumerical : NumericalResponse.get_score with tolerances.            *)
(* SpecFormula   : FormulaResponse.check_formula over sampled variables.   *)
(* SpecAssignment: AssignmentFormatGrader.grade (courseware/grades.py).    *)
(* SpecWeighted  : WeightedSubsectionsGrader.grade over child graders.     *)
(* SpecDnd       : draganddrop.grade (capa/verifiers) on target names.     *)
(* SpecCompare   : compare_positions over lists of target names.           *)
(* SpecPositions : PositionsCompare on coordinates and radii.              *)
(* SpecRatio     : OpenEndedResponse._parse_score_msg, score / max_score.  *)
(* SpecCombined  : CombinedOpenEndedV1Module (update_task_states,          *)
(*                 next_problem, reset) over its child tasks.              *)
(* SpecChoices   : MultipleChoiceResponse.mc_setup_response.               *)
(***************************************************************************)
EXTENDS Integers, Sequences, FiniteSets, TLC

\* ---------------------------------------------------------------- bounds
\* last value of the wall clock, in ticks
MaxTick == 2
\* clock ticks per second: strftime(dateformat) keeps whole seconds only
TicksPerSecond == 2
\* number of get_score calls that reach send_to_queue in one behaviour
MaxSubmissions == 2
\* largest max_score an OpenEndedResponse is configured with
MaxMaxScore == 2
\* largest score a grader reply carries (the smallest is -1)
MaxReplyScore == 2

VARIABLES
    kind,       \* "code" (CodeResponse) or "openended" (OpenEndedResponse)
    max_score,  \* OpenEndedResponse.max_score
    now,        \* datetime.now(), in ticks
    cmap,       \* the persisted CorrectMap: answer_id -> entry
    sent,       \* headers handed to qinterface.send_to_queue, in order, each
                \* with the outcome (error) and the clock of the call
    last,       \* the last handler that ran, with its inputs and pre-state
    fn_in,      \* argument of the pure function under test
    fn_out,     \* its result
    coe         \* the CombinedOpenEndedV1Module object, None before it is built

vars == <<kind, max_score, now, cmap, sent, last, fn_in, fn_out, coe>>

\* ------------------------------------------------------- Python values
\* None / a present value, for fields that hold either
None == <<>>
Some(x) == <<x>>

\* the single input field of the response (max_inputfields = 1)
answer_id == "1_2_1"
seed == 1
anonymous_student_id == "student"
\* self.system.xqueue['callback_url'] and self.queue_name
callback_url == "/xqueue/callback"
queue_name == "default_queue"

\* ----------------------------------------------------------- CorrectMap
\* CorrectMap.set: replaces the whole entry of answer_id; every field that
\* is not passed takes its default (correctness None, npoints None, msg '',
\* hint '', hintmode None, queuestate None).
CorrectMap_set(cm, aid, correctness, npoints, msg, queuestate) ==
    (aid :> [correctness |-> correctness, npoints |-> npoints, msg |-> msg,
             hint |-> "", hintmode |-> "None", queuestate |-> queuestate]) @@ cm

\* CorrectMap(): no entries
CorrectMap_new == [a \in {} |-> None]

CorrectMap_is_queued(cm, aid) ==
    aid \in DOMAIN cm /\ cm[aid].queuestate # None

CorrectMap_is_right_queuekey(cm, aid, test_key) ==
    CorrectMap_is_queued(cm, aid) /\ cm[aid].queuestate[1].key = test_key

\* ------------------------------------------------------ xqueue_interface
\* datetime.strftime(datetime.now(), dateformat): whole seconds
strftime(t) == t \div TicksPerSecond

\* make_hashkey(seed): the md5 digest of the string; the string is kept as
\* the sequence of the parts it is concatenated from, and the digest is
\* taken as collision-free
make_hashkey(str) == [md5 |-> str]

\* make_xheader(lms_callback_url, lms_key, queue_name)
make_xheader(url, key, name) ==
    [lms_callback_url |-> url, lms_key |-> key, queue_name |-> name]

\* every key a submission of this student can get within the clock's range
QueueKeys ==
    { make_hashkey(<<seed, q, anonymous_student_id, answer_id>>) :
        q \in 0 .. strftime(MaxTick) }

\* --------------------------------------------------------- grader replies
CodeTags == {"correct", "score", "msg"}
OpenEndedRequiredTags ==
    {"score", "feedback", "grader_type", "success", "grader_id", "submission_id"}
OpenEndedTags == OpenEndedRequiredTags \cup {"rubric_scores"}
AllTags == CodeTags \cup OpenEndedTags

\* texts a grader puts in 'msg', or a template renders for 'feedback'
GraderMsgs == {"<p>ok</p>", "<p>a&nbsp;b</p>", "<p>unclosed"}

\* etree.fromstring(msg) succeeds: the tags are balanced and every entity
\* is one XML defines (nbsp is not)
IsWellFormedXML(m) == m = "<p>ok</p>"

\* msg.replace('&nbsp;', '&#160;')
replace_nbsp(m) ==
    CASE m = "<p>a&nbsp;b</p>" -> "<p>a&#160;b</p>"
      [] m = "<div>feedback&nbsp;</div>" -> "<div>feedback&#160;</div>"
      [] OTHER -> m

ReplyScores == -1 .. MaxReplyScore

\* a reply: shape says what json.loads makes of it, tags are the keys of
\* the dict, the other fields are the values of the keys that are present
ScoreMsg(shape, tags, correct, score, msg, success) ==
    [shape |-> shape, tags |-> tags, correct |-> correct, score |-> score,
     msg |-> msg, success |-> success]

ParseFail == [valid |-> FALSE, correct |-> FALSE, points |-> 0, msg |-> ""]

\* CodeResponse._parse_score_msg with 'score' left out of the required tags
CodeResponse_parse_score_msg_no_score_tag(score_msg) ==
    IF score_msg.shape = "notjson" THEN ParseFail
    ELSE IF score_msg.shape # "dict" THEN ParseFail
    ELSE IF \E tag \in {"correct", "msg"} : tag \notin score_msg.tags
         THEN ParseFail
    ELSE IF ~IsWellFormedXML(score_msg.msg) THEN ParseFail
    ELSE [valid |-> TRUE, correct |-> score_msg.correct,
          points |-> score_msg.score, msg |-> score_msg.msg]

\* CodeResponse._parse_score_msg
CodeResponse_parse_score_msg(score_msg) ==
    IF score_msg.shape = "notjson" THEN ParseFail
    ELSE IF score_msg.shape # "dict" THEN ParseFail
    ELSE IF \E tag \in CodeTags : tag \notin score_msg.tags THEN ParseFail
    ELSE IF ~IsWellFormedXML(score_msg.msg) THEN ParseFail
    ELSE [valid |-> TRUE, correct |-> score_msg.correct,
          points |-> score_msg.score, msg |-> score_msg.msg]

\* OpenEndedResponse._format_feedback: the rendered template
OpenEndedResponse_format_feedback(response_items) ==
    IF ~response_items.success THEN "<div>errors</div>"
    ELSE "<div>feedback&nbsp;</div>"

\* OpenEndedResponse._parse_score_msg; '/' on two ints is floor division
OpenEndedResponse_parse_score_msg(maxscore, score_msg) ==
    IF score_msg.shape = "notjson" THEN ParseFail
    ELSE IF score_msg.shape # "dict" THEN ParseFail
    ELSE IF \E tag \in OpenEndedRequiredTags : tag \notin score_msg.tags
         THEN ParseFail
    ELSE LET feedback == OpenEndedResponse_format_feedback(score_msg)
             score_ratio == score_msg.score \div maxscore
             correct == (100 * score_ratio >= 66)
         IN  [valid |-> TRUE, correct |-> correct,
              points |-> score_msg.score, msg |-> feedback]

InvalidReplyMsg == "Invalid grader reply. Please contact the course staff."
UnableToDeliverMsg == "Unable to deliver your submission to grader."
QueuedMsg == "queue length"

\* CodeResponse.update_score with the queuestate not consumed
CodeResponse_update_score_keeps_queuestate(score_msg, oldcmap, queuekey) ==
    LET parsed == CodeResponse_parse_score_msg(score_msg)
    IN  IF ~parsed.valid
        THEN CorrectMap_set(oldcmap, answer_id, "None", None, InvalidReplyMsg, None)
        ELSE LET correctness == IF parsed.correct THEN "correct" ELSE "incorrect"
                 points == IF parsed.points < 0 THEN 0 ELSE parsed.points
             IN  IF CorrectMap_is_right_queuekey(oldcmap, answer_id, queuekey)
                 THEN CorrectMap_set(oldcmap, answer_id, correctness, Some(points),
                                     replace_nbsp(parsed.msg),
                                     oldcmap[answer_id].queuestate)
                 ELSE oldcmap

\* CodeResponse.update_score without the sanity check on the returned points
CodeResponse_update_score_no_clamp(score_msg, oldcmap, queuekey) ==
    LET parsed == CodeResponse_parse_score_msg(score_msg)
    IN  IF ~parsed.valid
        THEN CorrectMap_set(oldcmap, answer_id, "None", None, InvalidReplyMsg, None)
        ELSE LET correctness == IF parsed.correct THEN "correct" ELSE "incorrect"
             IN  IF CorrectMap_is_right_queuekey(oldcmap, answer_id, queuekey)
                 THEN CorrectMap_set(oldcmap, answer_id, correctness,
                                     Some(parsed.points),
                                     replace_nbsp(parsed.msg), None)
                 ELSE oldcmap

\* CodeResponse.update_score
CodeResponse_update_score(score_msg, oldcmap, queuekey) ==
    LET parsed == CodeResponse_parse_score_msg(score_msg)
    IN  IF ~parsed.valid
        THEN CorrectMap_set(oldcmap, answer_id, "None", None, InvalidReplyMsg, None)
        ELSE LET correctness == IF parsed.correct THEN "correct" ELSE "incorrect"
                 points == IF parsed.points < 0 THEN 0 ELSE parsed.points
             IN  IF CorrectMap_is_right_queuekey(oldcmap, answer_id, queuekey)
                 THEN CorrectMap_set(oldcmap, answer_id, correctness, Some(points),
                                     replace_nbsp(parsed.msg), None)
                 ELSE oldcmap

\* OpenEndedResponse.update_score
OpenEndedResponse_update_score(maxscore, score_msg, oldcmap, queuekey) ==
    LET parsed == OpenEndedResponse_parse_score_msg(maxscore, score_msg)
    IN  IF ~parsed.valid
        THEN CorrectMap_set(oldcmap, answer_id, "None", None, InvalidReplyMsg, None)
        ELSE LET correctness == IF parsed.correct THEN "correct" ELSE "incorrect"
                 points == IF parsed.points < 0 THEN 0 ELSE parsed.points
             IN  IF CorrectMap_is_right_queuekey(oldcmap, answer_id, queuekey)
                 THEN CorrectMap_set(oldcmap, answer_id, correctness, Some(points),
                                     replace_nbsp(parsed.msg), None)
                 ELSE oldcmap

\* replies the external grader delivers in the state machine: well-formed
\* ones with every score and verdict, one that is not JSON, one without 'score'
ScoreMsgs ==
    { ScoreMsg("dict", AllTags, c, sc, "<p>ok</p>", TRUE) :
        c \in BOOLEAN, sc \in ReplyScores }
    \cup { ScoreMsg("notjson", {}, FALSE, 0, "<p>ok</p>", TRUE),
           ScoreMsg("dict", AllTags \ {"score"}, TRUE, MaxReplyScore, "<p>ok</p>", TRUE) }

\* a submission: a text, or a list of files
Submissions == {[files |-> FALSE, text |-> "print 1"], [files |-> TRUE, text |-> ""]}
is_list_of_files(submission) == submission.files

\* the student answers of one request: a submission for the answer-id, or none
StudentAnswers ==
    UNION { [ids -> Submissions] : ids \in SUBSET {answer_id} }

\* self.payload
payload == [grader_payload |-> "grader_payload"]

\* CodeResponse.get_score with the clock read a second time for the
\* key it stores in the queuestate
CodeResponse_get_score_second_clock(student_answers, t, error) ==
    IF answer_id \notin DOMAIN student_answers
    THEN [raised |-> "Exception", xheader |-> None, body |-> None,
          cmap |-> CorrectMap_new]
    ELSE LET qtime == strftime(t)
             queuekey == make_hashkey(<<seed, qtime, anonymous_student_id, answer_id>>)
             xheader == make_xheader(callback_url, queuekey, queue_name)
             qtime2 == strftime(t + 1)
             queuestate ==
                 [key |-> make_hashkey(<<seed, qtime2, anonymous_student_id, answer_id>>),
                  time |-> qtime]
             submission == student_answers[answer_id]
             student_info == [anonymous_student_id |-> anonymous_student_id,
                              submission_time |-> qtime]
             contents == [grader_payload |-> payload.grader_payload,
                          student_info |-> student_info,
                          student_response |->
                              IF is_list_of_files(submission) THEN ""
                              ELSE submission.text]
         IN  [raised |-> "", xheader |-> Some(xheader), body |-> Some(contents),
              cmap |-> IF error
                       THEN CorrectMap_set(CorrectMap_new, answer_id, "None", None,
                                           UnableToDeliverMsg, None)
                       ELSE CorrectMap_set(CorrectMap_new, answer_id, "incomplete",
                                           None, QueuedMsg, Some(queuestate))]

\* CodeResponse.get_score recording the queuestate also when the queue
\* refused the submission
CodeResponse_get_score_queued_on_error(student_answers, t, error) ==
    IF answer_id \notin DOMAIN student_answers
    THEN [raised |-> "Exception", xheader |-> None, body |-> None,
          cmap |-> CorrectMap_new]
    ELSE LET qtime == strftime(t)
             queuekey == make_hashkey(<<seed, qtime, anonymous_student_id, answer_id>>)
             xheader == make_xheader(callback_url, queuekey, queue_name)
             submission == student_answers[answer_id]
             student_info == [anonymous_student_id |-> anonymous_student_id,
                              submission_time |-> qtime]
             contents == [grader_payload |-> payload.grader_payload,
                          student_info |-> student_info,
                          student_response |->
                              IF is_list_of_files(submission) THEN ""
                              ELSE submission.text]
             queuestate == [key |-> queuekey, time |-> qtime]
         IN  [raised |-> "", xheader |-> Some(xheader), body |-> Some(contents),
              cmap |-> IF error
                       THEN CorrectMap_set(CorrectMap_new, answer_id, "None", None,
                                           UnableToDeliverMsg, Some(queuestate))
                       ELSE CorrectMap_set(CorrectMap_new, answer_id, "incomplete",
                                           None, QueuedMsg, Some(queuestate))]

\* CodeResponse.get_score; student_answers maps answer-ids to submissions,
\* t is datetime.now(), error the outcome of send_to_queue
CodeResponse_get_score(student_answers, t, error) ==
    IF answer_id \notin DOMAIN student_answers
    THEN [raised |-> "Exception", xheader |-> None, body |-> None,
          cmap |-> CorrectMap_new]
    ELSE LET qtime == strftime(t)
             queuekey == make_hashkey(<<seed, qtime, anonymous_student_id, answer_id>>)
             xheader == make_xheader(callback_url, queuekey, queue_name)
             submission == student_answers[answer_id]
             student_info == [anonymous_student_id |-> anonymous_student_id,
                              submission_time |-> qtime]
             contents == [grader_payload |-> payload.grader_payload,
                          student_info |-> student_info,
                          student_response |->
                              IF is_list_of_files(submission) THEN ""
                              ELSE submission.text]
             queuestate == [key |-> queuekey, time |-> qtime]
         IN  [raised |-> "", xheader |-> Some(xheader), body |-> Some(contents),
              cmap |-> IF error
                       THEN CorrectMap_set(CorrectMap_new, answer_id, "None", None,
                                           UnableToDeliverMsg, None)
                       ELSE CorrectMap_set(CorrectMap_new, answer_id, "incomplete",
                                           None, QueuedMsg, Some(queuestate))]

\* OpenEndedResponse.get_score
OpenEndedResponse_get_score(maxscore, student_answers, t, error) ==
    IF answer_id \notin DOMAIN student_answers
    THEN [raised |-> "LoncapaProblemError", xheader |-> None, body |-> None,
          cmap |-> CorrectMap_new]
    ELSE LET qtime == strftime(t)
             queuekey == make_hashkey(<<seed, qtime, anonymous_student_id, answer_id>>)
             xheader == make_xheader(callback_url, queuekey, queue_name)
             submission == student_answers[answer_id]
             student_info == [anonymous_student_id |-> anonymous_student_id,
                              submission_time |-> qtime]
             contents == [grader_payload |-> payload.grader_payload,
                          student_info |-> student_info,
                          student_response |-> submission.text,
                          max_score |-> maxscore]
             queuestate == [key |-> queuekey, time |-> qtime]
         IN  [raised |-> "", xheader |-> Some(xheader), body |-> Some(contents),
              cmap |-> IF error
                       THEN CorrectMap_set(CorrectMap_new, answer_id, "None", None,
                                           UnableToDeliverMsg, None)
                       ELSE CorrectMap_set(CorrectMap_new, answer_id, "incomplete",
                                           None, QueuedMsg, Some(queuestate))]

\* ------------------------------------------------- the state machine
NoMsg == ScoreMsg("none", {}, FALSE, 0, "", FALSE)
NoKey == make_hashkey(<<>>)
NoCall == [op |-> "init", pre |-> CorrectMap_new, score_msg |-> NoMsg,
           queuekey |-> NoKey, raised |-> "", error |-> FALSE, again |-> FALSE]

NoArg == None

Init ==
    /\ kind \in {"code", "openended"}
    /\ max_score \in 1 .. MaxMaxScore
    /\ kind = "code" => max_score = 1
    /\ now = 0
    /\ cmap = CorrectMap_new
    /\ sent = <<>>
    /\ last = NoCall
    /\ fn_in = NoArg
    /\ fn_out = NoArg
    /\ coe = None

\* datetime.now() advances
Tick ==
    /\ now < MaxTick
    /\ now' = now + 1
    /\ UNCHANGED <<kind, max_score, cmap, sent, last, fn_in, fn_out, coe>>

\* a submission: get_score runs and its CorrectMap is persisted
Submit(r, error) ==
    /\ cmap' = IF r.raised # "" THEN cmap ELSE r.cmap
    /\ sent' = IF r.raised # "" THEN sent
               ELSE Append(sent, [xheader |-> r.xheader[1], error |-> error,
                                  time |-> now])
    /\ last' = [op |-> "get_score", pre |-> cmap, score_msg |-> NoMsg,
                queuekey |-> NoKey, raised |-> r.raised,
                error |-> (r.raised = "" /\ error), again |-> FALSE]
    /\ UNCHANGED <<kind, max_score, now, fn_in, fn_out, coe>>

CodeGetScore ==
    /\ kind = "code"
    /\ Len(sent) < MaxSubmissions
    /\ \E student_answers \in StudentAnswers, error \in BOOLEAN :
         Submit(CodeResponse_get_score(student_answers, now, error), error)

OpenEndedGetScore ==
    /\ kind = "openended"
    /\ Len(sent) < MaxSubmissions
    /\ \E student_answers \in StudentAnswers, error \in BOOLEAN :
         Submit(OpenEndedResponse_get_score(max_score, student_answers, now, error),
                error)

\* the reply is well-formed for this response
ReplyValid(score_msg) ==
    IF kind = "code" THEN CodeResponse_parse_score_msg(score_msg).valid
    ELSE OpenEndedResponse_parse_score_msg(max_score, score_msg).valid

\* the call c was an update_score with a well-formed reply whose key matched
Applied(c) ==
    /\ c.op = "update_score"
    /\ ReplyValid(c.score_msg)
    /\ CorrectMap_is_right_queuekey(c.pre, answer_id, c.queuekey)

\* the callback that delivers a grader reply: update_score runs on the
\* persisted CorrectMap and its result is persisted
Deliver(score_msg, queuekey, newcmap) ==
    /\ cmap' = newcmap
    /\ last' = [op |-> "update_score", pre |-> cmap, score_msg |-> score_msg,
                queuekey |-> queuekey, raised |-> "", error |-> FALSE,
                again |-> Applied(last) /\ last.score_msg = score_msg
                          /\ last.queuekey = queuekey]
    /\ UNCHANGED <<kind, max_score, now, sent, fn_in, fn_out, coe>>

CodeUpdateScore ==
    /\ kind = "code"
    /\ \E score_msg \in ScoreMsgs, queuekey \in QueueKeys :
         Deliver(score_msg, queuekey,
                 CodeResponse_update_score(score_msg, cmap, queuekey))

OpenEndedUpdateScore ==
    /\ kind = "openended"
    /\ \E score_msg \in ScoreMsgs, queuekey \in QueueKeys :
         Deliver(score_msg, queuekey,
                 OpenEndedResponse_update_score(max_score, score_msg, cmap, queuekey))

Next ==
    \/ Tick
    \/ CodeGetScore
    \/ OpenEndedGetScore
    \/ CodeUpdateScore
    \/ OpenEndedUpdateScore

Spec == Init /\ [][Next]_vars

\* ------------------------------------------- properties of the state machine
HasEntry(cm) == answer_id \in DOMAIN cm
Entry == cmap[answer_id]

\* the key stored for the answer-id differs from key (or none is stored)
StoredKeyDiffers(cm, key) ==
    \/ ~HasEntry(cm)
    \/ cm[answer_id].queuestate = None
    \/ cm[answer_id].queuestate[1].key # key

\* the accepted submissions, as indices of sent
Accepted == { i \in DOMAIN sent : ~sent[i].error }

\* C1: update_score with a queuekey that differs from the stored key (or
\* with no stored queue_state) leaves the existing entry of the answer-id
\* unchanged in every field, for every score_msg, well-formed or malformed.
C1_StaleKeyLeavesEntry ==
    (/\ last.op = "update_score"
     /\ HasEntry(last.pre)
     /\ StoredKeyDiffers(last.pre, last.queuekey))
    => cmap = last.pre

\* C2: after update_score applied a well-formed reply under the matching
\* key, the queue_state is null, and a second update_score with the same
\* reply and the same key leaves the CorrectMap as the first call left it.
C2_SecondApplyIsNoOp ==
    /\ Applied(last) => (HasEntry(cmap) /\ Entry.queuestate = None)
    /\ (last.op = "update_score" /\ last.again) => cmap = last.pre

C2_Witness ==
    /\ last.op = "update_score"
    /\ last.again
    /\ HasEntry(cmap)
    /\ Entry.npoints = Some(MaxReplyScore)
    /\ Entry.correctness = "correct"

\* C3: with two accepted submissions of different keys, a reply carrying the
\* older key that is delivered while the newer submission is queued does not
\* change the entry: it stays 'incomplete' with the newer queue_state.
C3_OlderReplyIgnored ==
    \A i, j \in Accepted :
        (/\ i < j
         /\ j = Len(sent)
         /\ sent[i].xheader.lms_key # sent[j].xheader.lms_key
         /\ last.op = "update_score"
         /\ last.queuekey = sent[i].xheader.lms_key
         /\ CorrectMap_is_right_queuekey(last.pre, answer_id, sent[j].xheader.lms_key))
        => /\ cmap = last.pre
           /\ Entry.correctness = "incomplete"

\* C4: update_score with the matching key and a malformed reply makes the
\* entry terminal: queue_state null, correctness 'incorrect', an error message.
C4_MalformedReplyGradesIncorrect ==
    (/\ last.op = "update_score"
     /\ ~ReplyValid(last.score_msg)
     /\ CorrectMap_is_right_queuekey(last.pre, answer_id, last.queuekey))
    => /\ HasEntry(cmap)
       /\ Entry.queuestate = None
       /\ Entry.correctness = "incorrect"
       /\ Entry.msg = InvalidReplyMsg

\* get_score ran, reached send_to_queue, and the queue accepted / refused
QueueAccepted == last.op = "get_score" /\ last.raised = "" /\ ~last.error
QueueRefused == last.op = "get_score" /\ last.error

\* C5: when the queue accepts the submission, the entry is 'incomplete' and
\* its queue_state holds the key sent as lms_key in the posted header and
\* the submission time.
C5_AcceptedIsQueued ==
    QueueAccepted =>
        /\ HasEntry(cmap)
        /\ Entry.correctness = "incomplete"
        /\ Entry.queuestate =
             Some([key |-> sent[Len(sent)].xheader.lms_key,
                   time |-> strftime(sent[Len(sent)].time)])

C5_Witness ==
    /\ QueueAccepted
    /\ Len(sent) = 2
    /\ sent[2].time = 1
    /\ Entry.queuestate # None

C7_KeysUnique ==
    \A i, j \in DOMAIN sent :
        i < j => sent[i].xheader.lms_key # sent[j].xheader.lms_key

\* C8: the points recorded for the answer-id are never negative, and a
\* well-formed reply with the matching key and a negative score records 0.
C8_PointsClamped ==
    /\ (HasEntry(cmap) /\ Entry.npoints # None) => Entry.npoints[1] >= 0
    /\ (Applied(last) /\ last.score_msg.score < 0) => Entry.npoints = Some(0)

C8_Witness ==
    /\ Applied(last)
    /\ last.score_msg.score < 0
    /\ Entry.npoints = Some(0)

\* ------------------------------------------------ parsing of grader replies
\* the variables of the state machine, at rest
AsyncIdle ==
    /\ kind = "code"
    /\ max_score = 1
    /\ now = 0
    /\ cmap = CorrectMap_new
    /\ sent = <<>>
    /\ last = NoCall
    /\ coe = None

\* replies of every shape: every set of keys, with every value of the keys
AllScoreMsgs ==
    { ScoreMsg("dict", tg, c, sc, m, su) :
        tg \in SUBSET AllTags, c \in BOOLEAN, sc \in ReplyScores,
        m \in GraderMsgs, su \in BOOLEAN }
    \cup { ScoreMsg(sh, {}, FALSE, 0, "<p>ok</p>", TRUE) :
             sh \in {"notjson", "notdict"} }

InitParse ==
    /\ AsyncIdle
    /\ fn_in \in [fn : {"CodeResponse"}, maxscore : {1}, score_msg : AllScoreMsgs]
          \cup [fn : {"OpenEndedResponse"}, maxscore : 1 .. MaxMaxScore,
                score_msg : AllScoreMsgs]
    /\ fn_out = None

ParseCode ==
    /\ fn_out = None
    /\ fn_in.fn = "CodeResponse"
    /\ fn_out' = Some(CodeResponse_parse_score_msg(fn_in.score_msg))
    /\ UNCHANGED <<kind, max_score, now, cmap, sent, last, fn_in, coe>>

ParseOpenEnded ==
    /\ fn_out = None
    /\ fn_in.fn = "OpenEndedResponse"
    /\ fn_out' = Some(OpenEndedResponse_parse_score_msg(fn_in.maxscore,
                                                        fn_in.score_msg))
    /\ UNCHANGED <<kind, max_score, now, cmap, sent, last, fn_in, coe>>

NextParse ==
    \/ ParseCode
    \/ ParseOpenEnded

SpecParse == InitParse /\ [][NextParse]_vars

MaxFields == 2

\* class attributes of three response types; max_inputfields None is <<>>
NumericalResponse ==
    [response_tag |-> "numericalresponse", allowed_inputfields |-> {"textline"},
     required_attributes |-> {"answer"}, max_inputfields |-> Some(1)]
CodeResponse ==
    [response_tag |-> "coderesponse",
     allowed_inputfields |-> {"textbox", "filesubmission"},
     required_attributes |-> {}, max_inputfields |-> Some(1)]
CustomResponse ==
    [response_tag |-> "customresponse",
     allowed_inputfields |-> {"textline", "textbox", "crystallography",
                              "chemicalequationinput", "vsepr_input"},
     required_attributes |-> {}, max_inputfields |-> None]
ResponseTypes == {NumericalResponse, CodeResponse, CustomResponse}

\* int(s): the value of a decimal literal; any other string raises ValueError
IsIntLiteral(str) == str \in {"1", "2"}
IntOf(str) == IF str = "1" THEN 1 ELSE 2

\* an input field: its tag, its id and its 'points' attribute (None if absent)
InputTags == {"textline", "textbox"}
PointsAttrs == {None, Some("2"), Some("x")}
InputFields ==
    UNION { { f \in [1 .. n -> [tag : InputTags, id : 1 .. MaxFields,
                                points : PointsAttrs]] :
                \A i, j \in 1 .. n : i # j => f[i].id # f[j].id } :
            n \in 0 .. MaxFields }

\* the response XML stanza: its 'answer' attribute, None if absent
ResponseXmls == [answer : {None, Some(""), Some("3.14")}]

\* xml.get(prop)
xml_get(xml, prop) == IF prop = "answer" THEN xml.answer ELSE None

\* 'not v' for an attribute value: absent or the empty string
IsFalsyAttr(v) == v = None \/ v = Some("")

InitError(name) == [raised |-> name, answer_ids |-> <<>>, maxpoints |-> <<>>]

\* LoncapaResponse.__init__ without the check of max_inputfields
LoncapaResponse_init_no_max_check(cls, xml, inputfields) ==
    IF \E k \in DOMAIN inputfields :
           inputfields[k].tag \notin cls.allowed_inputfields
    THEN InitError("LoncapaProblemError")
    ELSE IF \E prop \in cls.required_attributes : IsFalsyAttr(xml_get(xml, prop))
    THEN InitError("LoncapaProblemError")
    ELSE IF cls.max_inputfields = Some(1) /\ Len(inputfields) = 0
    THEN InitError("IndexError")
    ELSE IF \E k \in DOMAIN inputfields :
                /\ inputfields[k].points # None
                /\ ~IsIntLiteral(inputfields[k].points[1])
    THEN InitError("ValueError")
    ELSE [raised |-> "",
          answer_ids |-> [k \in DOMAIN inputfields |-> inputfields[k].id],
          maxpoints |->
              [a \in { inputfields[k].id : k \in DOMAIN inputfields } |->
                  LET x == CHOOSE k \in DOMAIN inputfields : inputfields[k].id = a
                  IN  IF inputfields[x].points = None THEN IntOf("1")
                      ELSE IntOf(inputfields[x].points[1])]]

\* LoncapaResponse.__init__: the exception it raises ("" if none) and the
\* answer_ids and maxpoints it records
LoncapaResponse_init(cls, xml, inputfields) ==
    IF \E k \in DOMAIN inputfields :
           inputfields[k].tag \notin cls.allowed_inputfields
    THEN InitError("LoncapaProblemError")
    ELSE IF /\ cls.max_inputfields # None
            /\ cls.max_inputfields[1] # 0
            /\ Len(inputfields) > cls.max_inputfields[1]
    THEN InitError("LoncapaProblemError")
    ELSE IF \E prop \in cls.required_attributes : IsFalsyAttr(xml_get(xml, prop))
    THEN InitError("LoncapaProblemError")
    ELSE IF cls.max_inputfields = Some(1) /\ Len(inputfields) = 0
    THEN InitError("IndexError")
    ELSE IF \E k \in DOMAIN inputfields :
                /\ inputfields[k].points # None
                /\ ~IsIntLiteral(inputfields[k].points[1])
    THEN InitError("ValueError")
    ELSE [raised |-> "",
          answer_ids |-> [k \in DOMAIN inputfields |-> inputfields[k].id],
          maxpoints |->
              [a \in { inputfields[k].id : k \in DOMAIN inputfields } |->
                  LET x == CHOOSE k \in DOMAIN inputfields : inputfields[k].id = a
                  IN  IF inputfields[x].points = None THEN IntOf("1")
                      ELSE IntOf(inputfields[x].points[1])]]

InitInit ==
    /\ AsyncIdle
    /\ fn_in \in [cls : ResponseTypes, xml : ResponseXmls, inputfields : InputFields]
    /\ fn_out = None

Construct ==
    /\ fn_out = None
    /\ fn_out' = Some(LoncapaResponse_init(fn_in.cls, fn_in.xml, fn_in.inputfields))
    /\ UNCHANGED <<kind, max_score, now, cmap, sent, last, fn_in, coe>>

NextInit == Construct

SpecInit == InitInit /\ [][NextInit]_vars

\* the three conditions of a specification error
HasDisallowedTag ==
    \E k \in DOMAIN fn_in.inputfields :
        fn_in.inputfields[k].tag \notin fn_in.cls.allowed_inputfields
HasTooManyFields ==
    /\ fn_in.cls.max_inputfields # None
    /\ Len(fn_in.inputfields) > fn_in.cls.max_inputfields[1]
LacksRequiredAttr ==
    \E prop \in fn_in.cls.required_attributes : xml_get(fn_in.xml, prop) = None
HasEmptyRequiredAttr ==
    \E prop \in fn_in.cls.required_attributes : xml_get(fn_in.xml, prop) = Some("")

\* the constructor raised nothing and recorded the answer-ids in input-field
\* order, with the max points of each (1 where 'points' is absent)
RecordedInOrder ==
    /\ fn_out[1].raised = ""
    /\ Len(fn_out[1].answer_ids) = Len(fn_in.inputfields)
    /\ \A k \in DOMAIN fn_in.inputfields :
         /\ fn_out[1].answer_ids[k] = fn_in.inputfields[k].id
         /\ fn_in.inputfields[k].id \in DOMAIN fn_out[1].maxpoints
         /\ fn_out[1].maxpoints[fn_in.inputfields[k].id] =
              (IF fn_in.inputfields[k].points = None THEN 1
               ELSE IF fn_in.inputfields[k].points = Some("2") THEN 2 ELSE 0)
    /\ DOMAIN fn_out[1].maxpoints =
         { fn_in.inputfields[k].id : k \in DOMAIN fn_in.inputfields }

MaxSlots == 2

\* sorted(ids): the ids of a sequence in ascending order
RECURSIVE SortedSeqOf(_)
SortedSeqOf(S) ==
    IF S = {} THEN <<>>
    ELSE LET m == CHOOSE x \in S : \A y \in S : x <= y
         IN  <<m>> \o SortedSeqOf(S \ {m})
sorted(ids) == SortedSeqOf({ ids[k] : k \in DOMAIN ids })

\* the orderings of n distinct answer-ids
AnswerIdLists ==
    UNION { { f \in [1 .. n -> 1 .. n] : \A i, j \in 1 .. n : i # j => f[i] # f[j] } :
            n \in 0 .. MaxSlots }

\* what a student typed into one box
BoxAnswers == {"", "x"}

\* the messages a check function hands back
CheckMsgs == {"ok", "a&#60;b"}

\* the clean-up of the message of an {ok, msg} record: wrapped in <html>,
\* '&#60;' replaced by '&lt;', serialised pretty-printed (a newline is
\* appended), '&#13;' removed, the <html> wrapper removed again
clean_msg(msg) == IF msg = "a&#60;b" THEN "a&lt;b\n" ELSE "ok\n"

\* outcomes of the author's check code.  A code block (exec) raises or leaves
\* the lists 'correct' and 'messages' in the context; a check function (cfn)
\* raises or returns a boolean, a list of booleans or an {ok, msg} record.
NoRet == [shape |-> "none", ok |-> FALSE, msg |-> "ok", list |-> <<>>]
ExecOutcomes(n) ==
    { [raises |-> TRUE, correct |-> <<>>, messages |-> <<>>, ret |-> NoRet] }
    \cup { [raises |-> FALSE, correct |-> c, messages |-> m, ret |-> NoRet] :
             c \in UNION { [1 .. l -> {"correct", "incorrect", "unknown"}] :
                           l \in {n - 1, n} \cap Nat },
             m \in [1 .. n -> {"", "ok"}] }
CfnReturns(n) ==
    { [shape |-> "bool", ok |-> b, msg |-> "ok", list |-> <<>>] : b \in BOOLEAN }
    \cup { [shape |-> "dict", ok |-> b, msg |-> m, list |-> <<>>] :
             b \in BOOLEAN, m \in CheckMsgs }
    \cup { [shape |-> "list", ok |-> FALSE, msg |-> "ok", list |-> l] :
             l \in UNION { [1 .. k -> BOOLEAN] : k \in {0, n} } }
CfnOutcomes(n) ==
    { [raises |-> TRUE, correct |-> <<>>, messages |-> <<>>, ret |-> NoRet] }
    \cup { [raises |-> FALSE, correct |-> <<>>, messages |-> <<>>, ret |-> r] :
             r \in CfnReturns(n) }

\* truth value of a returned object: a boolean is itself, a list is true
\* iff it is not empty
truth(ret) == IF ret.shape = "list" THEN Len(ret.list) > 0 ELSE ret.ok

Raised(name) == [raised |-> name, cmap |-> CorrectMap_new]
Returned(cm) == [raised |-> "", cmap |-> cm]

\* the loop that builds the CorrectMap from correct[] and messages[]
RECURSIVE build_correct_map(_, _, _, _, _)
build_correct_map(idset, correct, messages, maxpoints, k) ==
    IF k = 0 THEN CorrectMap_new
    ELSE CorrectMap_set(build_correct_map(idset, correct, messages, maxpoints, k - 1),
                        idset[k], correct[k],
                        Some(IF correct[k] = "correct" THEN maxpoints[idset[k]] ELSE 0),
                        messages[k], None)

NoAnswerMsg == "<span class=\"inline-error\">No answer entered!</span>"

\* CustomResponse.get_score.  self: answer_ids, maxpoints, code_type ("str"
\* for a code block, "fn" for a check function), empty_answer_err; run: the
\* outcome of the check code on this submission.
CustomResponse_get_score(self, student_answers, run) ==
    LET idset == sorted(self.answer_ids)
        n == Len(idset)
    IN  IF \E k \in 1 .. n : idset[k] \notin DOMAIN student_answers
        THEN Raised("Exception")
        ELSE IF n = 1 /\ student_answers[idset[1]] = ""
        THEN Returned(CorrectMap_set(CorrectMap_new, idset[1], "incorrect", None,
                                     IF self.empty_answer_err THEN NoAnswerMsg ELSE "",
                                     None))
        ELSE IF self.code_type = "str"
        THEN IF run.raises THEN Raised("StudentInputError")
             ELSE IF Len(run.correct) < n THEN Raised("IndexError")
             ELSE Returned(build_correct_map(idset, run.correct, run.messages,
                                             self.maxpoints, n))
        ELSE IF run.raises \/ Len(self.answer_ids) = 0 THEN Raised("Exception")
             ELSE LET verdict == IF truth(run.ret) THEN "correct" ELSE "incorrect"
                      correct == [k \in 1 .. n |-> verdict]
                      messages == [k \in 1 .. n |->
                                      IF run.ret.shape = "dict" /\ k = 1
                                      THEN clean_msg(run.ret.msg) ELSE ""]
                  IN  Returned(build_correct_map(idset, correct, messages,
                                                 self.maxpoints, n))

\* the student's answers: some boxes may be missing from the submission
SlotAnswers(ids) ==
    UNION { [S -> BoxAnswers] : S \in SUBSET { ids[k] : k \in DOMAIN ids } }

InitCustom ==
    /\ AsyncIdle
    /\ fn_out = None
    /\ \E ids \in AnswerIdLists, ct \in {"str", "fn"} :
         fn_in \in [self : [answer_ids : {ids},
                            maxpoints : [{ ids[k] : k \in DOMAIN ids } -> 1 .. 2],
                            code_type : {ct}, empty_answer_err : BOOLEAN],
                    student_answers : SlotAnswers(ids),
                    run : IF ct = "str" THEN ExecOutcomes(Len(ids))
                          ELSE CfnOutcomes(Len(ids))]

CustomGetScore ==
    /\ fn_out = None
    /\ fn_out' = Some(CustomResponse_get_score(fn_in.self, fn_in.student_answers,
                                               fn_in.run))
    /\ UNCHANGED <<kind, max_score, now, cmap, sent, last, fn_in, coe>>

NextCustom == CustomGetScore

SpecCustom == InitCustom /\ [][NextCustom]_vars

\* the verdict of a boolean
VerdictOf(b) == IF b THEN "correct" ELSE "incorrect"

\* the check function was called and returned
CfnReturned ==
    /\ fn_out # None
    /\ fn_in.self.code_type = "fn"
    /\ fn_out[1].raised = ""
    /\ ~(Len(fn_in.self.answer_ids) = 1
         /\ fn_in.student_answers[fn_in.self.answer_ids[1]] = "")

\* C11: whatever the shape of the check function's result, get_score turns
\* it into a CorrectMap: a boolean gives every slot that verdict; an
\* {ok, msg} record gives every slot the verdict of ok and attaches the
\* (cleaned) msg; a list of per-slot booleans gives slot k the verdict of
\* element k of the list.
C11_EveryShapeNormalized ==
    CfnReturned =>
        LET idset == sorted(fn_in.self.answer_ids)
            ret == fn_in.run.ret
            cm == fn_out[1].cmap
        IN  /\ DOMAIN cm = { idset[k] : k \in DOMAIN idset }
            /\ ret.shape = "bool" =>
                 \A k \in DOMAIN idset : cm[idset[k]].correctness = VerdictOf(ret.ok)
            /\ ret.shape = "dict" =>
                 /\ \A k \in DOMAIN idset :
                      cm[idset[k]].correctness = VerdictOf(ret.ok)
                 /\ cm[idset[1]].msg = clean_msg(ret.msg)
            /\ (ret.shape = "list" /\ Len(ret.list) = Len(idset)) =>
                 \A k \in DOMAIN idset :
                      cm[idset[k]].correctness = VerdictOf(ret.list[k])

\* ---------------------------------------------- ImageResponse.get_score
\* largest coordinate of the image grid (clicks and corners are 0 .. MaxCoord)
MaxCoord == 2
\* largest number of <imageinput> fields of one <imageresponse>
MaxImages == 2

Coords == 0 .. MaxCoord
Points == Coords \X Coords

\* a student answer: the text of the click.  "brackets" is '[x,y]',
\* "spaces" is ' [ x , y ] ', "trailing" is '[x,y]abc', "parens" is '(x,y)',
\* "negative" is '[-x,y]', "empty" is ''
Given(form, x, y) == [form |-> form, x |-> x, y |-> y]
Clicks == { Given("brackets", p[1], p[2]) : p \in Points }
OddGivens ==
    { Given(f, 1, 1) : f \in {"empty", "spaces", "trailing", "parens", "negative"} }

\* re.match('\[([0-9]+),([0-9]+)]', given.strip().replace(' ', '')): the
\* match is anchored at the start only and knows no sign
click_match(given) ==
    IF given.form \in {"brackets", "spaces", "trailing"}
    THEN Some(<<given.x, given.y>>) ELSE None

\* one rectangle of the 'rectangle' attribute, "(llx,lly)-(urx,ury)"; ok is
\* FALSE for a text the rectangle pattern does not match
Rect(llx, lly, urx, ury) ==
    [ok |-> TRUE, llx |-> llx, lly |-> lly, urx |-> urx, ury |-> ury]
BadRect == [ok |-> FALSE, llx |-> 0, lly |-> 0, urx |-> 0, ury |-> 0]
Rects == { Rect(a, b, c, d) : a \in Coords, b \in Coords, c \in Coords, d \in Coords }

\* (b - a) x (p - a)
cross(a, b, p) == (b[1] - a[1]) * (p[2] - a[2]) - (b[2] - a[2]) * (p[1] - a[1])

\* MultiPoint(region).convex_hull.type == 'Polygon': the points are not all
\* on one line
hull_is_polygon(region) ==
    \E a \in region, b \in region, c \in region : cross(a, b, c) # 0

\* polygon.contains(Point(gx, gy)): the point lies in the interior of the
\* hull, that is strictly to the left of every edge line of the hull taken
\* counter-clockwise
hull_contains(region, p) ==
    \A a \in region, b \in region :
        (a # b /\ \A q \in region : cross(a, b, q) >= 0) => cross(a, b, p) > 0

\* json.loads(regions[aid]) with the single-region notation wrapped in a list
parsed_regions(attr) ==
    IF attr.notation = "single" THEN <<attr.regions[1]>> ELSE attr.regions

\* ImageResponse.get_score with exclusive rectangle bounds
ImageResponse_grade_one_exclusive(ie, given) ==
    IF given.form = "empty" THEN [raised |-> "", correctness |-> "incorrect"]
    ELSE IF click_match(given) = None
    THEN [raised |-> "Exception", correctness |-> "incorrect"]
    ELSE LET g == click_match(given)[1]
             rects == IF ie.rectangle = None THEN <<>> ELSE ie.rectangle[1]
             regs == IF ie.regions = None THEN <<>> ELSE parsed_regions(ie.regions[1])
             hit(r) == r.llx < g[1] /\ g[1] < r.urx /\ r.lly < g[2] /\ g[2] < r.ury
         IN  IF \E k \in DOMAIN rects :
                    /\ ~rects[k].ok
                    /\ \A j \in 1 .. k - 1 : ~hit(rects[j])
             THEN [raised |-> "Exception", correctness |-> "incorrect"]
             ELSE IF \E k \in DOMAIN rects : hit(rects[k])
             THEN [raised |-> "", correctness |-> "correct"]
             ELSE IF \E k \in DOMAIN regs :
                        hull_is_polygon(regs[k]) /\ hull_contains(regs[k], g)
             THEN [raised |-> "", correctness |-> "correct"]
             ELSE [raised |-> "", correctness |-> "incorrect"]

\* the body of the loop of ImageResponse.get_score for one <imageinput> ie
\* and the student's answer to it: the exception raised ("" if none) and
\* the correctness set for its answer-id
ImageResponse_grade_one(ie, given) ==
    IF given.form = "empty" THEN [raised |-> "", correctness |-> "incorrect"]
    ELSE IF click_match(given) = None
    THEN [raised |-> "Exception", correctness |-> "incorrect"]
    ELSE LET g == click_match(given)[1]
             rects == IF ie.rectangle = None THEN <<>> ELSE ie.rectangle[1]
             regs == IF ie.regions = None THEN <<>> ELSE parsed_regions(ie.regions[1])
             hit(r) == r.llx <= g[1] /\ g[1] <= r.urx /\ r.lly <= g[2] /\ g[2] <= r.ury
         IN  IF \E k \in DOMAIN rects :
                    /\ ~rects[k].ok
                    /\ \A j \in 1 .. k - 1 : ~hit(rects[j])
             THEN [raised |-> "Exception", correctness |-> "incorrect"]
             ELSE IF \E k \in DOMAIN rects : hit(rects[k])
             THEN [raised |-> "", correctness |-> "correct"]
             ELSE IF \E k \in DOMAIN regs :
                        hull_is_polygon(regs[k]) /\ hull_contains(regs[k], g)
             THEN [raised |-> "", correctness |-> "correct"]
             ELSE [raised |-> "", correctness |-> "incorrect"]

\* ImageResponse.get_score over the first k <imageinput> fields; the id of
\* field k is k
RECURSIVE ImageResponse_loop(_, _, _)
ImageResponse_loop(ielements, student_answers, k) ==
    IF k = 0 THEN Returned(CorrectMap_new)
    ELSE LET before == ImageResponse_loop(ielements, student_answers, k - 1)
             one == ImageResponse_grade_one(ielements[k], student_answers[k])
         IN  IF before.raised # "" THEN before
             ELSE IF one.raised # "" THEN Raised(one.raised)
             ELSE Returned(CorrectMap_set(before.cmap, k, one.correctness,
                                          None, "", None))

ImageResponse_get_score(ielements, student_answers) ==
    ImageResponse_loop(ielements, student_answers, Len(ielements))


\* the 'rectangle' attribute of an <imageinput>: absent, one rectangle, or
\* two rectangles separated by ';'
RectangleAttrs ==
    {None, Some(<<>>), Some(<<BadRect>>)}
    \cup { Some(<<r>>) : r \in Rects }
    \cup { Some(<<r1, r2>>) : r1 \in {Rect(0, 0, 0, 0), BadRect},
                              r2 \in {Rect(1, 1, MaxCoord, MaxCoord), BadRect} }

\* the 'regions' attribute: absent, one region in the single-region notation
\* (every three points of the grid and every four points of its lower left
\* 3 x 3 corner), or a list of regions
CornerPoints == (0 .. 2) \X (0 .. 2)
Regions ==
    { S \in SUBSET Points : Cardinality(S) = 3 }
    \cup { S \in SUBSET CornerPoints : Cardinality(S) = 4 }
RegionsAttrs ==
    {None, Some([notation |-> "multi", regions |-> <<>>])}
    \cup { Some([notation |-> "single", regions |-> <<S>>]) : S \in Regions }
    \cup { Some([notation |-> "multi", regions |-> <<S1, S2>>]) :
             S1 \in {{<<0, 0>>, <<1, 1>>, <<2, 2>>}},
             S2 \in {{<<0, 0>>, <<2, 0>>, <<0, 2>>}, {<<0, 0>>, <<2, 0>>, <<2, 2>>}} }

\* the <imageinput> fields of a response with several fields
SiblingInputs_rectangle == {None, Some(<<Rect(0, 0, 1, 1)>>)}
SiblingInputs_regions ==
    {None, Some([notation |-> "single",
                 regions |-> <<{<<0, 0>>, <<MaxCoord, 0>>, <<0, MaxCoord>>}>>])}
SiblingInputs ==
    [rectangle : SiblingInputs_rectangle, regions : SiblingInputs_regions]

\* the <imageinput> field of a response with one field: every rectangle
\* attribute with the regions of a sibling, and every regions attribute with
\* the rectangles of a sibling
SingleInputs ==
    [rectangle : RectangleAttrs, regions : SiblingInputs_regions]
    \cup [rectangle : SiblingInputs_rectangle, regions : RegionsAttrs]

\* the answers to the fields of a response with several fields: the odd
\* ones and the clicks on the diagonal
SiblingGivens == OddGivens \cup { Given("brackets", c, c) : c \in Coords }

InitImage ==
    /\ AsyncIdle
    /\ fn_out = None
    /\ \/ fn_in \in [ielements : [1 .. 1 -> SingleInputs],
                     student_answers : [1 .. 1 -> Clicks \cup OddGivens]]
       \/ \E n \in 2 .. MaxImages :
            fn_in \in [ielements : [1 .. n -> SiblingInputs],
                       student_answers : [1 .. n -> SiblingGivens]]

ImageGetScore ==
    /\ fn_out = None
    /\ fn_out' = Some(ImageResponse_get_score(fn_in.ielements, fn_in.student_answers))
    /\ UNCHANGED <<kind, max_score, now, cmap, sent, last, fn_in, coe>>

NextImage == ImageGetScore

SpecImage == InitImage /\ [][NextImage]_vars

\* the answer is not empty and is no click
Unparseable(given) == given.form # "empty" /\ click_match(given) = None

\* C12: when a response has several answer-ids and the answer for one of
\* them is unparseable, get_score does not raise, every answer-id gets an
\* entry, and every answer-id with a parseable answer gets the grade that
\* its own answer deserves.
C12_BadAnswerSparesSiblings ==
    (/\ fn_out # None
     /\ Len(fn_in.ielements) >= 2
     /\ \E k \in DOMAIN fn_in.ielements : Unparseable(fn_in.student_answers[k]))
    => /\ fn_out[1].raised = ""
       /\ \A k \in DOMAIN fn_in.ielements :
            /\ k \in DOMAIN fn_out[1].cmap
            /\ ~Unparseable(fn_in.student_answers[k]) =>
                 fn_out[1].cmap[k].correctness =
                     ImageResponse_grade_one(fn_in.ielements[k],
                                             fn_in.student_answers[k]).correctness


\* the rectangles and regions of field k, and the click on it
RectsOf(k) ==
    IF fn_in.ielements[k].rectangle = None THEN <<>>
    ELSE fn_in.ielements[k].rectangle[1]
RegionsOf(k) ==
    IF fn_in.ielements[k].regions = None THEN <<>>
    ELSE fn_in.ielements[k].regions[1].regions
IsClick(k) == fn_in.student_answers[k].form \in {"brackets", "spaces", "trailing"}
ClickOf(k) == <<fn_in.student_answers[k].x, fn_in.student_answers[k].y>>

InRectangle(r, p) ==
    r.llx <= p[1] /\ p[1] <= r.urx /\ r.lly <= p[2] /\ p[2] <= r.ury

\* p is strictly inside the triangle a, b, c
StrictlyInTriangle(a, b, c, p) ==
    \/ cross(a, b, p) > 0 /\ cross(b, c, p) > 0 /\ cross(c, a, p) > 0
    \/ cross(a, b, p) < 0 /\ cross(b, c, p) < 0 /\ cross(c, a, p) < 0

\* p is strictly between a and b on the segment a b
StrictlyBetween(a, b, p) ==
    /\ cross(a, b, p) = 0
    /\ (p[1] - a[1]) * (p[1] - b[1]) + (p[2] - a[2]) * (p[2] - b[2]) < 0

\* p is an interior point of the convex hull of S: strictly inside a
\* triangle of S, or strictly between two points of S with points of S
\* strictly on both sides of their line
InsideHull(S, p) ==
    \/ \E a \in S, b \in S, c \in S : StrictlyInTriangle(a, b, c, p)
    \/ \E a \in S, b \in S, c \in S, d \in S :
         StrictlyBetween(a, b, p) /\ cross(a, b, c) > 0 /\ cross(a, b, d) < 0

\* every rectangle is well formed and every answer is empty or a click
WellFormedImageCall ==
    \A k \in DOMAIN fn_in.ielements :
        /\ \A j \in DOMAIN RectsOf(k) : RectsOf(k)[j].ok
        /\ ~Unparseable(fn_in.student_answers[k])

\* C13: a click (x, y) is graded 'correct' iff it lies in at least one
\* author rectangle, bounds included, or inside the convex hull of at least
\* one author region; a call with well-formed rectangles and answers that
\* are clicks or empty raises nothing.
C13_CorrectIffInRectOrHull ==
    fn_out # None =>
        /\ WellFormedImageCall => fn_out[1].raised = ""
        /\ fn_out[1].raised = "" =>
             \A k \in DOMAIN fn_in.ielements :
                 IsClick(k) =>
                     (fn_out[1].cmap[k].correctness = "correct"
                      <=> \/ \E j \in DOMAIN RectsOf(k) :
                               RectsOf(k)[j].ok /\ InRectangle(RectsOf(k)[j], ClickOf(k))
                          \/ \E j \in DOMAIN RegionsOf(k) :
                               InsideHull(RegionsOf(k)[j], ClickOf(k)))
        /\ fn_out[1].raised = "" =>
             \A k \in DOMAIN fn_in.ielements :
                 fn_out[1].cmap[k].correctness \in {"correct", "incorrect"}

\* a click on the boundary of the only rectangle, outside every region, is
\* graded correct
C13_Witness ==
    /\ fn_out # None
    /\ Len(fn_in.ielements) = 1
    /\ fn_in.ielements[1].rectangle = Some(<<Rect(0, 1, 1, MaxCoord)>>)
    /\ fn_in.ielements[1].regions = None
    /\ fn_in.student_answers[1] = Given("brackets", 1, MaxCoord)
    /\ fn_out[1].raised = ""
    /\ fn_out[1].cmap[1].correctness = "correct"

\* a click inside the hull of a region and in no rectangle is graded correct
C13_WitnessHull ==
    /\ fn_out # None
    /\ Len(fn_in.ielements) = 1
    /\ fn_in.ielements[1].rectangle = None
    /\ fn_in.ielements[1].regions # None
    /\ fn_out[1].raised = ""
    /\ IsClick(1)
    /\ fn_out[1].cmap[1].correctness = "correct"


\* ---------------------------------------------- ChoiceResponse.get_score
\* largest number of <choice> elements of a response
MaxChoices == 3

\* "choice_" + str(index)
choice_name(index) == <<"choice_", index>>

\* the <choice> elements of the response, each by its 'correct' attribute
ChoiceLists == UNION { [1 .. n -> {"true", "false"}] : n \in 0 .. MaxChoices }

\* ChoiceResponse.assign_choice_names: choice number k (from 1) is named by
\* its index k - 1
assign_choice_names(choices) == [k \in DOMAIN choices |-> choice_name(k - 1)]

\* ChoiceResponse.setup_response: the names of the choices with correct="true"
ChoiceResponse_correct_choices(choices) ==
    { assign_choice_names(choices)[k] : k \in { j \in DOMAIN choices : choices[j] = "true" } }

\* what the student submits for the answer-id: nothing, one name, or a list
\* of names; "other" is a name that no choice carries
SubmittedNames == { choice_name(i) : i \in 0 .. MaxChoices - 1 } \cup {<<"other", 0>>}
ChoiceAnswers ==
    { [shape |-> "missing", value |-> <<>>] }
    \cup { [shape |-> "single", value |-> <<v>>] : v \in SubmittedNames }
    \cup { [shape |-> "list", value |-> l] :
             l \in UNION { [1 .. n -> SubmittedNames] : n \in 0 .. MaxChoices } }

\* ChoiceResponse.get_score without the test for extraneous choices
ChoiceResponse_get_score_required_only(correct_choices, student_answer) ==
    LET given == { student_answer.value[k] : k \in DOMAIN student_answer.value }
        required_selected == Cardinality(correct_choices \ given) = 0
    IN  CorrectMap_set(CorrectMap_new, answer_id,
                       IF required_selected THEN "correct" ELSE "incorrect",
                       None, "", None)

\* ChoiceResponse.get_score: student_answers.get(answer_id, []) made a list
\* if it is none, then a set, and compared with correct_choices
ChoiceResponse_get_score(correct_choices, student_answer) ==
    LET given == { student_answer.value[k] : k \in DOMAIN student_answer.value }
        required_selected == Cardinality(correct_choices \ given) = 0
        no_extra_selected == Cardinality(given \ correct_choices) = 0
    IN  CorrectMap_set(CorrectMap_new, answer_id,
                       IF required_selected /\ no_extra_selected
                       THEN "correct" ELSE "incorrect",
                       None, "", None)

InitChoice ==
    /\ AsyncIdle
    /\ fn_out = None
    /\ fn_in \in [choices : ChoiceLists, student_answer : ChoiceAnswers]

ChoiceGetScore ==
    /\ fn_out = None
    /\ fn_out' = Some(ChoiceResponse_get_score(
                          ChoiceResponse_correct_choices(fn_in.choices),
                          fn_in.student_answer))
    /\ UNCHANGED <<kind, max_score, now, cmap, sent, last, fn_in, coe>>

NextChoice == ChoiceGetScore

SpecChoice == InitChoice /\ [][NextChoice]_vars

\* the set of choices the student submitted: empty for a missing answer,
\* one element for a single answer, the elements of a list
SubmittedSet ==
    IF fn_in.student_answer.shape = "missing" THEN {}
    ELSE IF fn_in.student_answer.shape = "single"
    THEN {fn_in.student_answer.value[1]}
    ELSE { fn_in.student_answer.value[k] : k \in DOMAIN fn_in.student_answer.value }

\* the choices flagged correct, by position
FlaggedSet ==
    { choice_name(i) : i \in { j \in 0 .. Len(fn_in.choices) - 1 :
                                 fn_in.choices[j + 1] = "true" } }

\* C14: the answer is graded 'correct' iff the set of submitted choices
\* equals the set of choices flagged correct, and 'incorrect' otherwise; a
\* single answer counts as a one-element set, a missing answer as the empty
\* set.
C14_CorrectIffSetsEqual ==
    fn_out # None =>
        /\ DOMAIN fn_out[1] = {answer_id}
        /\ fn_out[1][answer_id].correctness =
             (IF SubmittedSet = FlaggedSet THEN "correct" ELSE "incorrect")

\* every correct choice is supplied together with an extraneous one
C14_Witness ==
    /\ fn_out # None
    /\ FlaggedSet = {choice_name(1)}
    /\ fn_in.student_answer.shape = "list"
    /\ SubmittedSet = {choice_name(1), choice_name(2)}
    /\ fn_out[1][answer_id].correctness = "incorrect"

\* a single answer that is the only correct choice
C14_WitnessSingle ==
    /\ fn_out # None
    /\ FlaggedSet = {choice_name(0)}
    /\ fn_in.student_answer.shape = "single"
    /\ fn_out[1][answer_id].correctness = "correct"


\* -------------------------------------------- NumericalResponse.get_score
\* largest magnitude of a number written in an answer
MaxVal == 3
\* largest absolute tolerance
MaxTol == 2

Abs(x) == IF x < 0 THEN -x ELSE x
Max(x, y) == IF x >= y THEN x ELSE y

\* the text of an answer: a number literal "a", a sum "a+b" (form "sum"), or
\* a text that is no number ("junk")
NumText(form, a, b) == [form |-> form, a |-> a, b |-> b]
NumTexts ==
    { NumText("literal", a, 0) : a \in -MaxVal .. MaxVal }
    \cup { NumText("sum", a, b) : a \in 0 .. MaxVal, b \in 1 .. MaxVal }
    \cup { NumText("junk", 0, 0) }

\* calc.evaluator(dict(), dict(), text): the value of an arithmetic
\* expression; a text that is none raises (None here)
evaluator(text) ==
    IF text.form = "literal" THEN Some(text.a)
    ELSE IF text.form = "sum" THEN Some(text.a + text.b)
    ELSE None

\* complex(text): the value of a number literal; any other text, an
\* arithmetic expression included, raises ValueError (None here)
complex(text) == IF text.form = "literal" THEN Some(text.a) ELSE None

\* the tolerance: "t" (absolute) or "p%" (relative, in percent)
Tolerance(relative, amount) == [relative |-> relative, amount |-> amount]
Tolerances ==
    { Tolerance(FALSE, t) : t \in 0 .. MaxTol }
    \cup { Tolerance(TRUE, p) : p \in {0, 50, 100} }
\* self.tolerance when the response has no tolerance responseparam: '0'
DefaultTolerance == Tolerance(FALSE, 0)

\* util.compare_with_tolerance(v1, v2, tol): abs(v1 - v2) <= tolerance,
\* where a tolerance "p%" stands for p * 0.01 * max(abs(v1), abs(v2))
compare_with_tolerance(v1, v2, tol) ==
    IF tol.relative
    THEN 100 * Abs(v1 - v2) <= tol.amount * Max(Abs(v1), Abs(v2))
    ELSE Abs(v1 - v2) <= tol.amount

\* NumericalResponse.get_score that compares with tolerance '0'
NumericalResponse_get_score_zero_tolerance(self, student_answer) ==
    IF complex(self.correct_answer) = None THEN Raised("StudentInputError")
    ELSE IF evaluator(student_answer) = None THEN Raised("StudentInputError")
    ELSE Returned(CorrectMap_set(CorrectMap_new, answer_id,
                     IF compare_with_tolerance(evaluator(student_answer)[1],
                                               complex(self.correct_answer)[1],
                                               DefaultTolerance)
                     THEN "correct" ELSE "incorrect",
                     None, "", None))

\* NumericalResponse.get_score.  self: correct_answer (the 'answer'
\* attribute) and tolerance
NumericalResponse_get_score(self, student_answer) ==
    IF complex(self.correct_answer) = None THEN Raised("StudentInputError")
    ELSE IF evaluator(student_answer) = None THEN Raised("StudentInputError")
    ELSE Returned(CorrectMap_set(CorrectMap_new, answer_id,
                     IF compare_with_tolerance(evaluator(student_answer)[1],
                                               complex(self.correct_answer)[1],
                                               self.tolerance)
                     THEN "correct" ELSE "incorrect",
                     None, "", None))

InitNumerical ==
    /\ AsyncIdle
    /\ fn_out = None
    /\ fn_in \in [self : [correct_answer : NumTexts, tolerance : Tolerances],
                  student_answer : NumTexts]

NumericalGetScore ==
    /\ fn_out = None
    /\ fn_out' = Some(NumericalResponse_get_score(fn_in.self, fn_in.student_answer))
    /\ UNCHANGED <<kind, max_score, now, cmap, sent, last, fn_in, coe>>

NextNumerical == NumericalGetScore

SpecNumerical == InitNumerical /\ [][NextNumerical]_vars

GradedCorrect ==
    /\ fn_out[1].raised = ""
    /\ fn_out[1].cmap[answer_id].correctness = "correct"

MaxSamples == 2

\* the formulas of the model, over the sampled variable x and the name A,
\* which only the problem's script context may define:
\*   "x", "x+1", "6/x", "A*x", "1e999" (a literal that overflows to inf) and
\*   "x+" (no formula)
Formulas == {"x", "x+1", "6/x", "A*x", "1e999", "x+"}

\* results of calc.evaluator: a number, inf, or an exception
Num(v) == [kind |-> "num", v |-> v]
Inf == [kind |-> "inf", v |-> 0]
Raises(name) == [kind |-> name, v |-> 0]

\* calc.evaluator(variables, dict(), formula): variables maps names to values
formula_evaluator(variables, formula) ==
    IF formula = "x" THEN Num(variables["x"])
    ELSE IF formula = "x+1" THEN Num(variables["x"] + 1)
    ELSE IF formula = "6/x"
    THEN IF variables["x"] = 0 THEN Raises("ZeroDivisionError")
         ELSE Num(6 \div variables["x"])
    ELSE IF formula = "A*x"
    THEN IF "A" \in DOMAIN variables THEN Num(variables["A"] * variables["x"])
         ELSE Raises("UndefinedVariable")
    ELSE IF formula = "1e999" THEN Inf
    ELSE Raises("ParseException")

\* the values random.uniform draws for x, one per sample: whole numbers that
\* divide 6 or are 0, from the declared range
SampleValues == {0, 1, 2, 3} \cap (0 .. MaxVal)
SampleSets == UNION { [1 .. n -> SampleValues] : n \in 0 .. MaxSamples }

\* strip_dict(dict(self.context)): the numeric variables of the script context
Contexts == { [n \in {} |-> 0], [n \in {"A"} |-> 2] }

\* the tolerance of the response, one below zero included
FormulaTolerances == Tolerances \cup {Tolerance(FALSE, -1)}

\* the loop body with the comparison inverted (the 'not' left out)
check_formula_sample_inverted(self, expected, given, value) ==
    LET student_variables == [n \in {"x"} |-> value]
        instructor_variables ==
            [n \in DOMAIN self.context \cup {"x"} |->
                IF n = "x" THEN value ELSE self.context[n]]
        instructor_result == formula_evaluator(instructor_variables, expected)
        student_result == formula_evaluator(student_variables, given)
    IN  IF instructor_result.kind \notin {"num", "inf"}
        THEN [raised |-> instructor_result.kind, correctness |-> ""]
        ELSE IF student_result.kind \notin {"num", "inf"}
        THEN [raised |-> "StudentInputError", correctness |-> ""]
        ELSE IF student_result.kind = "inf"
        THEN [raised |-> "", correctness |-> "incorrect"]
        ELSE IF instructor_result.kind = "inf"
        THEN [raised |-> "", correctness |-> "incorrect"]
        ELSE IF compare_with_tolerance(student_result.v, instructor_result.v,
                                        self.tolerance)
        THEN [raised |-> "", correctness |-> "incorrect"]
        ELSE [raised |-> "", correctness |-> "next"]

\* one pass of the loop of check_formula, at sample i with x = value:
\* "next" to go on with the next sample, otherwise what check_formula
\* returns or raises
check_formula_sample(self, expected, given, value) ==
    LET student_variables == [n \in {"x"} |-> value]
        instructor_variables ==
            [n \in DOMAIN self.context \cup {"x"} |->
                IF n = "x" THEN value ELSE self.context[n]]
        instructor_result == formula_evaluator(instructor_variables, expected)
        student_result == formula_evaluator(student_variables, given)
    IN  IF instructor_result.kind \notin {"num", "inf"}
        THEN [raised |-> instructor_result.kind, correctness |-> ""]
        ELSE IF student_result.kind \notin {"num", "inf"}
        THEN [raised |-> "StudentInputError", correctness |-> ""]
        ELSE IF student_result.kind = "inf"
        THEN [raised |-> "", correctness |-> "incorrect"]
        ELSE IF instructor_result.kind = "inf"
        THEN [raised |-> "", correctness |-> "incorrect"]
        ELSE IF ~compare_with_tolerance(student_result.v, instructor_result.v,
                                        self.tolerance)
        THEN [raised |-> "", correctness |-> "incorrect"]
        ELSE [raised |-> "", correctness |-> "next"]

\* FormulaResponse.check_formula from sample i on; samples holds the values
\* drawn for x.  self: context, tolerance
RECURSIVE FormulaResponse_check_formula(_, _, _, _, _)
FormulaResponse_check_formula(self, expected, given, samples, i) ==
    IF i > Len(samples) THEN [raised |-> "", correctness |-> "correct"]
    ELSE LET one == check_formula_sample(self, expected, given, samples[i])
         IN  IF one.correctness = "next"
             THEN FormulaResponse_check_formula(self, expected, given, samples, i + 1)
             ELSE one

InitFormula ==
    /\ AsyncIdle
    /\ fn_out = None
    /\ fn_in \in [self : [context : Contexts, tolerance : FormulaTolerances],
                  expected : Formulas, given : Formulas, samples : SampleSets]

CheckFormula ==
    /\ fn_out = None
    /\ fn_out' = Some(FormulaResponse_check_formula(fn_in.self, fn_in.expected,
                                                    fn_in.given, fn_in.samples, 1))
    /\ UNCHANGED <<kind, max_score, now, cmap, sent, last, fn_in, coe>>

NextFormula == CheckFormula

SpecFormula == InitFormula /\ [][NextFormula]_vars

FormulaCorrect == fn_out[1].raised = "" /\ fn_out[1].correctness = "correct"

\* the instructor's evaluation of the expected formula raises at no sample
InstructorEvaluates ==
    \A i \in DOMAIN fn_in.samples :
        formula_evaluator([n \in DOMAIN fn_in.self.context \cup {"x"} |->
                              IF n = "x" THEN fn_in.samples[i]
                              ELSE fn_in.self.context[n]],
                          fn_in.expected).kind \in {"num", "inf"}

\* C16 as claimed: whenever the student formula is the same text as the
\* instructor formula (the instructor formula can be evaluated and the
\* tolerance is not negative), check_formula grades 'correct', for every
\* sample set.
C16_IdenticalIsCorrect ==
    (/\ fn_out # None
     /\ fn_in.given = fn_in.expected
     /\ InstructorEvaluates
     /\ fn_in.self.tolerance.amount >= 0)
    => FormulaCorrect

\* C16 as amended: whenever the student formula is the same text as the
\* instructor formula, the formula evaluates to a finite number at every
\* sample from the sampled variables alone, and the tolerance is not
\* negative, check_formula grades 'correct'.
C16_IdenticalFiniteIsCorrect ==
    (/\ fn_out # None
     /\ fn_in.given = fn_in.expected
     /\ fn_in.self.tolerance.amount >= 0
     /\ \A i \in DOMAIN fn_in.samples :
          formula_evaluator([n \in {"x"} |-> fn_in.samples[i]],
                            fn_in.given).kind = "num")
    => FormulaCorrect

\* the same formula on both sides, two samples, graded correct
C16_Witness ==
    /\ fn_out # None
    /\ fn_in.given = "6/x"
    /\ fn_in.expected = "6/x"
    /\ fn_in.samples = <<1, 2>>
    /\ fn_in.self.tolerance = Tolerance(FALSE, 0)
    /\ FormulaCorrect


\* ------------------------------------------------------- course graders
\* (djangoapps/courseware/grades.py).  The floats of the source are exact
\* fractions here: [n |-> numerator, d |-> denominator], d > 0, in lowest
\* terms.
\* largest number of sections of one format in the grade sheet
MaxSections == 3
\* largest min_count of an AssignmentFormatGrader
MaxMinCount == 4
\* largest drop_count of an AssignmentFormatGrader
MaxDropCount == 2

RECURSIVE GCD(_, _)
GCD(a, b) == IF b = 0 THEN a ELSE GCD(b, a % b)

Rat(n, d) ==
    LET g == GCD(Abs(n), d)
    IN  [n |-> n \div g, d |-> d \div g]
RatZero == Rat(0, 1)
RatAdd(a, b) == Rat(a.n * b.d + b.n * a.d, a.d * b.d)
RatMul(a, b) == Rat(a.n * b.n, a.d * b.d)
RatDivInt(a, k) == Rat(a.n, a.d * k)
RatLess(a, b) == a.n * b.d < b.n * a.d
RatLeq(a, b) == a.n * b.d <= b.n * a.d

\* Score = namedtuple("Score", "earned possible graded section")
Score(earned, possible, graded, section) ==
    [earned |-> earned, possible |-> possible, graded |-> graded, section |-> section]

\* the totaled scores of the graded sections: possible > 0, earned of
\* 0 .. possible; out of 1 point or out of 10 points
Scores ==
    { Score(e, 1, TRUE, "section") : e \in {0, 1} }
    \cup { Score(e, 10, TRUE, "section") : e \in {0, 1, 5, 7, 9, 10} }
ScoreLists == UNION { [1 .. n -> Scores] : n \in 0 .. MaxSections }

\* settings.GENERATE_PROFILE_SCORES: off outside of profiling.  When it is
\* on a placeholder gets a random percentage, points_earned of
\* randrange(5, points_possible) out of points_possible of randrange(10, 50),
\* of which 5 out of 10 stands here.
GENERATE_PROFILE_SCORES == FALSE
profile_percentage == Rat(5, 10)

\* grade_sheet.get(format, [])
grade_sheet_get(grade_sheet, format) ==
    IF format \in DOMAIN grade_sheet THEN grade_sheet[format] ELSE <<>>

\* the same list with x put after every entry whose percent is not below
\* the percent of x: one step of a stable sort by descending percent
RECURSIVE insert_by_percent(_, _, _)
insert_by_percent(sorted_indices, x, percents) ==
    IF sorted_indices = <<>> THEN <<x>>
    ELSE IF RatLess(percents[Head(sorted_indices)], percents[x])
    THEN <<x>> \o sorted_indices
    ELSE <<Head(sorted_indices)>> \o insert_by_percent(Tail(sorted_indices), x, percents)

\* sorted(enumerate(breakdown), key=lambda x: -x[1]['percent']): the indices
\* of the first k entries, by descending percent, equal percents in their
\* original order (sorted() is stable)
RECURSIVE sorted_breakdown(_, _)
sorted_breakdown(percents, k) ==
    IF k = 0 THEN <<>>
    ELSE insert_by_percent(sorted_breakdown(percents, k - 1), k, percents)

\* the sum of percents[i] over the indices i of 1 .. k that are not dropped
RECURSIVE aggregate_score(_, _, _)
aggregate_score(percents, dropped, k) ==
    IF k = 0 THEN RatZero
    ELSE IF k \in dropped THEN aggregate_score(percents, dropped, k - 1)
    ELSE RatAdd(aggregate_score(percents, dropped, k - 1), percents[k])


\* the last drop_count entries of a list (the whole list if it is shorter)
LastOf(seq, count) ==
    IF count >= Len(seq) THEN seq ELSE SubSeq(seq, Len(seq) - count + 1, Len(seq))

\* totalWithDrops with the equal percents sorted in reverse order (a sort
\* that is not stable): of equal percents the earliest are dropped
totalWithDrops_unstable(percents, drop_count) ==
    LET n == Len(percents)
        reversed == [i \in 1 .. n |-> percents[n + 1 - i]]
        sorted_rev == sorted_breakdown(reversed, n)
        dropped_rev == IF drop_count > 0 THEN LastOf(sorted_rev, drop_count) ELSE <<>>
        dropped_indices == [k \in DOMAIN dropped_rev |-> n + 1 - dropped_rev[k]]
        dropped == { dropped_indices[k] : k \in DOMAIN dropped_indices }
        total == aggregate_score(percents, dropped, n)
    IN  [aggregate_score |-> IF n - drop_count > 0
                             THEN RatDivInt(total, n - drop_count) ELSE total,
         dropped_indices |-> dropped_indices]

\* the first drop_count entries of a list (the whole list if it is shorter)
FirstOf(seq, count) ==
    IF count >= Len(seq) THEN seq ELSE SubSeq(seq, 1, count)

\* totalWithDrops that drops from the head of the descending sort: the
\* highest percents
totalWithDrops_highest(percents, drop_count) ==
    LET n == Len(percents)
        sorted_all == sorted_breakdown(percents, n)
        dropped_indices == IF drop_count > 0 THEN FirstOf(sorted_all, drop_count)
                           ELSE <<>>
        dropped == { dropped_indices[k] : k \in DOMAIN dropped_indices }
        total == aggregate_score(percents, dropped, n)
    IN  [aggregate_score |-> IF n - drop_count > 0
                             THEN RatDivInt(total, n - drop_count) ELSE total,
         dropped_indices |-> dropped_indices]

\* AssignmentFormatGrader.grade.totalWithDrops; percents[i] is
\* breakdown[i - 1]['percent'], and the dropped indices count from 1
totalWithDrops(percents, drop_count) ==
    LET n == Len(percents)
        sorted_all == sorted_breakdown(percents, n)
        dropped_indices == IF drop_count > 0 THEN LastOf(sorted_all, drop_count)
                           ELSE <<>>
        dropped == { dropped_indices[k] : k \in DOMAIN dropped_indices }
        total == aggregate_score(percents, dropped, n)
    IN  [aggregate_score |-> IF n - drop_count > 0
                             THEN RatDivInt(total, n - drop_count) ELSE total,
         dropped_indices |-> dropped_indices]

\* the rows of the breakdown before the drops: one per section of the
\* format, then 'Unreleased' placeholders, count rows in all
assignment_breakdown(self, scores, count) ==
    [i \in 1 .. count |->
        IF i <= Len(scores)
        THEN [percent |-> Rat(scores[i].earned, scores[i].possible),
              label |-> <<self.short_label, ToString(i)>>,
              detail |-> <<self.section_type, ToString(i), scores[i].section>>,
              category |-> self.category, prominent |-> FALSE, mark |-> FALSE]
        ELSE [percent |-> IF GENERATE_PROFILE_SCORES THEN profile_percentage
                          ELSE RatZero,
              label |-> <<self.short_label, ToString(i)>>,
              detail |-> <<self.section_type, ToString(i),
                           IF GENERATE_PROFILE_SCORES THEN "Randomly Generated"
                           ELSE "Unreleased">>,
              category |-> self.category, prominent |-> FALSE, mark |-> FALSE]]

\* the rest of AssignmentFormatGrader.grade: the drops are marked and the
\* average row is appended
assignment_result(self, breakdown) ==
    LET totals == totalWithDrops([i \in DOMAIN breakdown |-> breakdown[i].percent],
                                 self.drop_count)
        dropped == { totals.dropped_indices[k] : k \in DOMAIN totals.dropped_indices }
        marked == [i \in DOMAIN breakdown |->
                      [breakdown[i] EXCEPT !.mark = i \in dropped]]
    IN  [percent |-> totals.aggregate_score,
         section_breakdown |->
             Append(marked,
                    [percent |-> totals.aggregate_score,
                     label |-> <<self.short_label, "Avg">>,
                     detail |-> <<self.section_type, "Average", "">>,
                     category |-> self.category, prominent |-> TRUE,
                     mark |-> FALSE])]

\* AssignmentFormatGrader.grade that adds no placeholders
AssignmentFormatGrader_grade_no_padding(self, grade_sheet) ==
    LET scores == grade_sheet_get(grade_sheet, self.course_format)
    IN  assignment_result(self, assignment_breakdown(self, scores, Len(scores)))

\* AssignmentFormatGrader.grade.  self: course_format, min_count,
\* drop_count, category, section_type, short_label
AssignmentFormatGrader_grade(self, grade_sheet) ==
    LET scores == grade_sheet_get(grade_sheet, self.course_format)
    IN  assignment_result(self,
            assignment_breakdown(self, scores, Max(self.min_count, Len(scores))))

\* AssignmentFormatGrader("Homework", min_count, drop_count, short_label="HW")
HomeworkGrader(min_count, drop_count) ==
    [course_format |-> "Homework", min_count |-> min_count,
     drop_count |-> drop_count, category |-> "Homework",
     section_type |-> "Homework", short_label |-> "HW"]

\* the grade sheets: no Homework section, or a list of Homework scores
HomeworkSheets ==
    { [f \in {} |-> <<>>] } \cup { [f \in {"Homework"} |-> l] : l \in ScoreLists }

InitAssignment ==
    /\ AsyncIdle
    /\ fn_out = None
    /\ fn_in \in [self : { HomeworkGrader(m, d) : m \in 0 .. MaxMinCount,
                                                   d \in 0 .. MaxDropCount },
                  grade_sheet : HomeworkSheets]

AssignmentGrade ==
    /\ fn_out = None
    /\ fn_out' = Some(AssignmentFormatGrader_grade(fn_in.self, fn_in.grade_sheet))
    /\ UNCHANGED <<kind, max_score, now, cmap, sent, last, fn_in, coe>>

NextAssignment == AssignmentGrade

SpecAssignment == InitAssignment /\ [][NextAssignment]_vars


\* the scores of the grader's format, the number of entries after padding
\* and the percent of entry i (0 for a placeholder)
FormatScores == grade_sheet_get(fn_in.grade_sheet, fn_in.self.course_format)
EntryCount == Max(fn_in.self.min_count, Len(FormatScores))
EntryPercent(i) ==
    IF i <= Len(FormatScores)
    THEN Rat(FormatScores[i].earned, FormatScores[i].possible) ELSE RatZero

\* the sum of the percents of the entries of a set
RECURSIVE PercentSum(_)
PercentSum(S) ==
    IF S = {} THEN RatZero
    ELSE LET i == CHOOSE x \in S : TRUE
         IN  RatAdd(EntryPercent(i), PercentSum(S \ {i}))

\* C17: the section_breakdown has one row per entry, max(min_count, n) in
\* all, the rows after the n sections being zero-percent placeholders,
\* followed by one prominent average row that carries the returned percent;
\* the returned percent is the mean of the percents that remain when the
\* drop_count lowest are dropped (0 when none remains).
C17_PadDropAverage ==
    fn_out # None =>
        LET rows == fn_out[1].section_breakdown
            m == EntryCount
            d == fn_in.self.drop_count
        IN  /\ Len(rows) = m + 1
            /\ \A i \in 1 .. m :
                 rows[i].percent = EntryPercent(i) /\ ~rows[i].prominent
            /\ \A i \in Len(FormatScores) + 1 .. m : rows[i].percent = RatZero
            /\ rows[m + 1].percent = fn_out[1].percent
            /\ rows[m + 1].prominent
            /\ d < m =>
                 \E D \in SUBSET (1 .. m) :
                    /\ Cardinality(D) = d
                    /\ \A i \in D, j \in (1 .. m) \ D :
                         RatLeq(EntryPercent(i), EntryPercent(j))
                    /\ RatMul(fn_out[1].percent, Rat(m - d, 1)) =
                         PercentSum((1 .. m) \ D)
            /\ d >= m => fn_out[1].percent = RatZero

\* scores 0.9, 0.5, 0.7 with min_count 4 and drop_count 1 give 0.70 and
\* five rows
C17_Witness ==
    /\ fn_out # None
    /\ Len(FormatScores) = 3
    /\ EntryPercent(1) = Rat(9, 10)
    /\ EntryPercent(2) = Rat(5, 10)
    /\ EntryPercent(3) = Rat(7, 10)
    /\ fn_in.self.min_count = 4
    /\ fn_in.self.drop_count = 1
    /\ fn_out[1].percent = Rat(7, 10)
    /\ Len(fn_out[1].section_breakdown) = 5

\* the entries marked as dropped
DroppedEntries ==
    { i \in 1 .. EntryCount : fn_out[1].section_breakdown[i].mark }

\* C18: the dropped entries are drop_count many (all, if there are fewer),
\* and every dropped entry is below every kept entry in the order 'lower
\* percent first, and of equal percents the later position first': equal
\* percents at the drop boundary are told apart by their original
\* positions alone.
C18_TiesByOriginalOrder ==
    fn_out # None =>
        /\ Cardinality(DroppedEntries) =
             (IF fn_in.self.drop_count < EntryCount THEN fn_in.self.drop_count
              ELSE EntryCount)
        /\ \A i \in DroppedEntries, j \in (1 .. EntryCount) \ DroppedEntries :
             \/ RatLess(EntryPercent(i), EntryPercent(j))
             \/ EntryPercent(i) = EntryPercent(j) /\ i > j

\* three entries of the same percent, one drop: the last one is dropped
C18_Witness ==
    /\ fn_out # None
    /\ EntryCount = 3
    /\ fn_in.self.drop_count = 1
    /\ EntryPercent(1) = EntryPercent(2)
    /\ EntryPercent(2) = EntryPercent(3)
    /\ EntryPercent(1) # RatZero
    /\ DroppedEntries = {3}


\* -------------------------------------------- WeightedSubsectionsGrader
\* largest number of sub graders of a WeightedSubsectionsGrader
MaxChildren == 4

\* SingleSectionGrader.grade.  self: section_format, section_name,
\* short_label, category
SingleSectionGrader_grade(self, grade_sheet) ==
    LET scores == grade_sheet_get(grade_sheet, self.section_format)
        found == { i \in DOMAIN scores : scores[i].section = self.section_name }
        foundScore == scores[CHOOSE i \in found : \A j \in found : i <= j]
        percent == IF found # {}
                   THEN Rat(foundScore.earned, foundScore.possible)
                   ELSE IF GENERATE_PROFILE_SCORES THEN profile_percentage
                   ELSE RatZero
    IN  [percent |-> percent,
         section_breakdown |->
             << [percent |-> percent, label |-> <<self.short_label, "">>,
                 detail |-> <<self.section_name, "", "">>,
                 category |-> self.category, prominent |-> TRUE,
                 mark |-> FALSE] >>]

\* subgrader.grade(grade_sheet), by the class of the sub grader
subgrader_grade(subgrader, grade_sheet) ==
    IF subgrader.class = "AssignmentFormatGrader"
    THEN AssignmentFormatGrader_grade(subgrader.self, grade_sheet)
    ELSE SingleSectionGrader_grade(subgrader.self, grade_sheet)

\* WeightedSubsectionsGrader.grade that normalizes: every weighted percent is
\* divided by the number of sub graders
RECURSIVE WeightedSubsectionsGrader_grade_normalized(_, _, _)
WeightedSubsectionsGrader_grade_normalized(sections, grade_sheet, k) ==
    IF k = 0
    THEN [percent |-> RatZero, section_breakdown |-> <<>>, grade_breakdown |-> <<>>]
    ELSE LET before == WeightedSubsectionsGrader_grade_normalized(sections, grade_sheet, k - 1)
             subgrade_result == subgrader_grade(sections[k].subgrader, grade_sheet)
             weightedPercent ==
                 RatDivInt(RatMul(subgrade_result.percent, sections[k].weight),
                           Len(sections))
         IN  [percent |-> RatAdd(before.percent, weightedPercent),
              section_breakdown |->
                  before.section_breakdown \o subgrade_result.section_breakdown,
              grade_breakdown |->
                  Append(before.grade_breakdown,
                         [percent |-> weightedPercent,
                          detail |-> <<sections[k].section_name, weightedPercent,
                                       sections[k].weight>>,
                          category |-> sections[k].section_name])]

\* WeightedSubsectionsGrader.grade over the first k of self.sections; each
\* section is (subgrader, section_name, weight)
RECURSIVE WeightedSubsectionsGrader_grade(_, _, _)
WeightedSubsectionsGrader_grade(sections, grade_sheet, k) ==
    IF k = 0
    THEN [percent |-> RatZero, section_breakdown |-> <<>>, grade_breakdown |-> <<>>]
    ELSE LET before == WeightedSubsectionsGrader_grade(sections, grade_sheet, k - 1)
             subgrade_result == subgrader_grade(sections[k].subgrader, grade_sheet)
             weightedPercent == RatMul(subgrade_result.percent, sections[k].weight)
         IN  [percent |-> RatAdd(before.percent, weightedPercent),
              section_breakdown |->
                  before.section_breakdown \o subgrade_result.section_breakdown,
              grade_breakdown |->
                  Append(before.grade_breakdown,
                         [percent |-> weightedPercent,
                          detail |-> <<sections[k].section_name, weightedPercent,
                                       sections[k].weight>>,
                          category |-> sections[k].section_name])]

\* the sub graders of a course: homeworks and labs by format, the midterm
\* and the final as single sections, with their weights (the final also as
\* the whole grade, which lets the weights add up to more than 1)
FormatGrader(format, min_count, drop_count) ==
    [class |-> "AssignmentFormatGrader",
     self |-> [course_format |-> format, min_count |-> min_count,
               drop_count |-> drop_count, category |-> format,
               section_type |-> format, short_label |-> format]]
SectionGrader(format, name) ==
    [class |-> "SingleSectionGrader",
     self |-> [section_format |-> format, section_name |-> name,
               short_label |-> name, category |-> name]]
Section(subgrader, section_name, weight) ==
    [subgrader |-> subgrader, section_name |-> section_name, weight |-> weight]
CourseSections ==
    { Section(FormatGrader("Homework", 1, 0), "Homework", Rat(15, 100)),
      Section(FormatGrader("Lab", 2, 1), "Labs", Rat(15, 100)),
      Section(SectionGrader("Midterm", "Midterm Exam"), "Midterm", Rat(30, 100)),
      Section(SectionGrader("Final", "Final Exam"), "Final", Rat(40, 100)),
      Section(SectionGrader("Final", "Final Exam"), "Final", Rat(1, 1)) }
SectionLists == UNION { [1 .. n -> CourseSections] : n \in 0 .. MaxChildren }

\* the grade sheets of a course: per format no entry or a list of scores
CourseSheetParts ==
    [Homework : {<<>>, <<Score(10, 10, TRUE, "hw1")>>,
                 <<Score(10, 10, TRUE, "hw1"), Score(5, 10, TRUE, "hw2")>>},
     Lab : {<<>>, <<Score(10, 10, TRUE, "lab1")>>},
     Midterm : {<<>>, <<Score(8, 10, TRUE, "Midterm Exam")>>,
                <<Score(10, 10, TRUE, "Quiz"), Score(5, 10, TRUE, "Midterm Exam")>>},
     Final : {<<>>, <<Score(9, 10, TRUE, "Final Exam")>>,
              <<Score(0, 10, TRUE, "Final Exam")>>}]
CourseSheets ==
    { [f \in { g \in {"Homework", "Lab", "Midterm", "Final"} : parts[g] # <<>> } |->
          parts[f]] : parts \in CourseSheetParts }

InitWeighted ==
    /\ AsyncIdle
    /\ fn_out = None
    /\ fn_in \in [sections : SectionLists, grade_sheet : CourseSheets]

WeightedGrade ==
    /\ fn_out = None
    /\ fn_out' = Some(WeightedSubsectionsGrader_grade(fn_in.sections,
                          fn_in.grade_sheet, Len(fn_in.sections)))
    /\ UNCHANGED <<kind, max_score, now, cmap, sent, last, fn_in, coe>>

NextWeighted == WeightedGrade

SpecWeighted == InitWeighted /\ [][NextWeighted]_vars

\* the percent child k returns for the grade sheet
ChildPercent(k) ==
    subgrader_grade(fn_in.sections[k].subgrader, fn_in.grade_sheet).percent

\* the sum of weight times child percent over the first k children
RECURSIVE WeightedSum(_)
WeightedSum(k) ==
    IF k = 0 THEN RatZero
    ELSE RatAdd(WeightedSum(k - 1), RatMul(fn_in.sections[k].weight, ChildPercent(k)))

\* the sum of the percents of the first k rows of the grade_breakdown
RECURSIVE BreakdownSum(_)
BreakdownSum(k) ==
    IF k = 0 THEN RatZero
    ELSE RatAdd(BreakdownSum(k - 1), fn_out[1].grade_breakdown[k].percent)

\* the section_breakdowns of the first k children, one after the other
RECURSIVE ChildBreakdowns(_)
ChildBreakdowns(k) ==
    IF k = 0 THEN <<>>
    ELSE ChildBreakdowns(k - 1) \o
         subgrader_grade(fn_in.sections[k].subgrader, fn_in.grade_sheet).section_breakdown

\* C19: the returned percent is the sum over the children of weight times
\* the child's percent, not divided by the sum of the weights; the
\* grade_breakdown has one row per child in child order, row k carrying
\* weight k times the percent of child k, and the rows add up to the
\* returned percent; the section_breakdown is the children's
\* section_breakdowns one after the other in child order.
C19_WeightedSumOfChildren ==
    fn_out # None =>
        LET n == Len(fn_in.sections)
        IN  /\ fn_out[1].percent = WeightedSum(n)
            /\ Len(fn_out[1].grade_breakdown) = n
            /\ \A k \in 1 .. n :
                 /\ fn_out[1].grade_breakdown[k].percent =
                      RatMul(fn_in.sections[k].weight, ChildPercent(k))
                 /\ fn_out[1].grade_breakdown[k].category =
                      fn_in.sections[k].section_name
            /\ BreakdownSum(n) = fn_out[1].percent
            /\ fn_out[1].section_breakdown = ChildBreakdowns(n)

\* weights 0.15, 0.15, 0.3, 0.4 with subgrades 1.0, 1.0, 0.8, 0.9 give 0.90
C19_Witness ==
    /\ fn_out # None
    /\ Len(fn_in.sections) = 4
    /\ \A k \in 1 .. 4 :
         /\ fn_in.sections[k].weight = <<Rat(15, 100), Rat(15, 100),
                                         Rat(30, 100), Rat(40, 100)>>[k]
         /\ ChildPercent(k) = <<Rat(1, 1), Rat(1, 1), Rat(8, 10), Rat(9, 10)>>[k]
    /\ fn_out[1].percent = Rat(9, 10)

\* weights that add up to more than 1 give a percent above 1
C19_WitnessExtraCredit ==
    /\ fn_out # None
    /\ RatLess(Rat(1, 1), fn_out[1].percent)


\* ------------------------------------------------- drag and drop grader
\* (capa/verifiers/draganddrop.py, known here by its unit tests
\* tests_draganddrop.py).  Targets are target names; a user answer is the
\* list of the one-entry dicts {draggable: target} of 'draggables'.
\* largest number of draggables in a user answer
MaxDropped == 3

\* number of entries of seq equal to x
Count(seq, x) == Cardinality({ i \in DOMAIN seq : seq[i] = x })

\* sorted(a) == sorted(b) for lists of names: the same names, each as often
same_sorted(a, b) ==
    /\ Len(a) = Len(b)
    /\ \A i \in DOMAIN a : Count(a, a[i]) = Count(b, a[i])

\* list(set(seq)), up to order: the first occurrence of every name
RECURSIVE remove_duplicates(_)
remove_duplicates(seq) ==
    IF seq = <<>> THEN <<>>
    ELSE LET front == remove_duplicates(SubSeq(seq, 1, Len(seq) - 1))
             x == seq[Len(seq)]
         IN  IF Count(front, x) > 0 THEN front ELSE Append(front, x)

\* PositionsCompare(a) == PositionsCompare(b) for target names
PositionsCompare_eq(a, b) == a = b

\* set(seq) <= set(other): each entry of seq is equal to some entry of other
among(seq, other) ==
    \A i \in DOMAIN seq :
        \E j \in DOMAIN other : PositionsCompare_eq(seq[i], other[j])

\* compare_positions with 'anyof' turned round: every correct entry must
\* be among the user's
compare_positions_covers_correct(correct, user, flag) ==
    IF flag = "exact"
    THEN /\ Len(correct) = Len(user)
         /\ \A i \in DOMAIN correct : PositionsCompare_eq(correct[i], user[i])
    ELSE IF flag = "anyof"
    THEN \A j \in DOMAIN correct :
            \E i \in DOMAIN user : PositionsCompare_eq(user[i], correct[j])
    ELSE IF flag = "unordered_equal"
    THEN among(user, correct) /\ among(correct, user)
    ELSE TRUE

\* compare_positions whose 'anyof' also wants as many user entries as
\* correct ones
compare_positions_anyof_same_length(correct, user, flag) ==
    IF flag = "exact"
    THEN /\ Len(correct) = Len(user)
         /\ \A i \in DOMAIN correct : PositionsCompare_eq(correct[i], user[i])
    ELSE IF flag = "anyof"
    THEN /\ Len(correct) = Len(user)
         /\ \A i \in DOMAIN user :
               \E j \in DOMAIN correct : PositionsCompare_eq(user[i], correct[j])
    ELSE IF flag = "unordered_equal"
    THEN among(user, correct) /\ among(correct, user)
    ELSE TRUE

\* compare_positions whose 'unordered_equal' compares place by place
compare_positions_unordered_in_order(correct, user, flag) ==
    IF flag = "exact" \/ flag = "unordered_equal"
    THEN /\ Len(correct) = Len(user)
         /\ \A i \in DOMAIN correct : PositionsCompare_eq(correct[i], user[i])
    ELSE IF flag = "anyof"
    THEN \A i \in DOMAIN user :
            \E j \in DOMAIN correct : PositionsCompare_eq(user[i], correct[j])
    ELSE TRUE

\* DragAndDrop.compare_positions(correct, user, flag)
compare_positions(correct, user, flag) ==
    IF flag = "exact"
    THEN /\ Len(correct) = Len(user)
         /\ \A i \in DOMAIN correct : PositionsCompare_eq(correct[i], user[i])
    ELSE IF flag = "anyof"
    THEN \A i \in DOMAIN user :
            \E j \in DOMAIN correct : PositionsCompare_eq(user[i], correct[j])
    ELSE IF flag = "unordered_equal"
    THEN among(user, correct) /\ among(correct, user)
    ELSE TRUE

\* a group of the correct answer
Group(draggables, targets, rule) ==
    [draggables |-> draggables, targets |-> targets, rule |-> rule]

\* the correct answer in list format: a dict {draggable: target} stands for
\* one group per key, with the rule 'exact'
CorrectAnswerList(correct_answer) ==
    IF correct_answer.format = "dict"
    THEN [i \in DOMAIN correct_answer.items |->
             Group(<<correct_answer.items[i][1]>>, <<correct_answer.items[i][2]>>,
                   "exact")]
    ELSE correct_answer.items

\* the entries {draggable: target} of seq whose draggable is one of names,
\* in order
RECURSIVE SelectEntries(_, _)
SelectEntries(seq, names) ==
    IF seq = <<>> THEN <<>>
    ELSE IF Count(names, Head(seq)[1]) > 0
    THEN <<Head(seq)>> \o SelectEntries(Tail(seq), names)
    ELSE SelectEntries(Tail(seq), names)

\* DragAndDrop.populate: per group the user's draggables that belong to it
\* and their targets, in the user's order, and the user's draggables that
\* belong to no group
populate(correct_answer, user_answer) ==
    LET groups == CorrectAnswerList(correct_answer)
        own(i) == SelectEntries(user_answer, groups[i].draggables)
    IN  [correct_groups |-> [i \in DOMAIN groups |-> groups[i].draggables],
         correct_positions |-> [i \in DOMAIN groups |->
                                   [rule |-> groups[i].rule,
                                    targets |-> groups[i].targets]],
         user_groups |-> [i \in DOMAIN groups |->
                             [k \in DOMAIN own(i) |-> own(i)[k][1]]],
         user_positions |-> [i \in DOMAIN groups |->
                                [k \in DOMAIN own(i) |-> own(i)[k][2]]],
         excess_draggables |->
             { user_answer[k][1] : k \in { j \in DOMAIN user_answer :
                   \A i \in DOMAIN groups :
                       Count(groups[i].draggables, user_answer[j][1]) = 0 } }]

\* the rule of a group: whether it carries 'number', and its name without
\* '+' and 'number'
has_number(rule) == rule \in {"anyof+number", "unordered_equal+number", "anyof_number"}
parsed_rule(rule) ==
    IF rule = "anyof+number" THEN "anyof"
    ELSE IF rule = "unordered_equal+number" THEN "unordered_equal"
    ELSE IF rule = "anyof_number" THEN "anyof_"
    ELSE rule


\* DragAndDrop.grade without the test for the user's draggables that belong
\* to no group
DragAndDrop_grade_allows_excess(self) ==
    /\ \A index \in DOMAIN self.correct_groups :
          LET rule == self.correct_positions[index].rule
              user == IF has_number(rule)
                      THEN self.user_groups[index]
                      ELSE remove_duplicates(self.user_groups[index])
          IN  same_sorted(self.correct_groups[index], user)
    /\ \A index \in DOMAIN self.correct_groups :
          LET rule == parsed_rule(self.correct_positions[index].rule)
          IN  /\ rule \in {"exact", "anyof", "unordered_equal"}
              /\ compare_positions(self.correct_positions[index].targets,
                                   self.user_positions[index], rule)

\* DragAndDrop.grade that removes the repeated draggables under '+number'
\* rules too, on both sides
DragAndDrop_grade_number_ignores_count(self) ==
    /\ self.excess_draggables = {}
    /\ \A index \in DOMAIN self.correct_groups :
          LET rule == self.correct_positions[index].rule
              user == remove_duplicates(self.user_groups[index])
              listed == IF has_number(rule)
                        THEN remove_duplicates(self.correct_groups[index])
                        ELSE self.correct_groups[index]
          IN  same_sorted(listed, user)
    /\ \A index \in DOMAIN self.correct_groups :
          LET rule == parsed_rule(self.correct_positions[index].rule)
          IN  /\ rule \in {"exact", "anyof", "unordered_equal"}
              /\ compare_positions(self.correct_positions[index].targets,
                                   self.user_positions[index], rule)

\* DragAndDrop.grade: no draggable of the user outside the groups, in every
\* group the user's draggables are the group's, and in every group the
\* user's targets satisfy the group's rule
DragAndDrop_grade(self) ==
    /\ self.excess_draggables = {}
    /\ \A index \in DOMAIN self.correct_groups :
          LET rule == self.correct_positions[index].rule
              user == IF has_number(rule)
                      THEN self.user_groups[index]
                      ELSE remove_duplicates(self.user_groups[index])
          IN  same_sorted(self.correct_groups[index], user)
    /\ \A index \in DOMAIN self.correct_groups :
          LET rule == parsed_rule(self.correct_positions[index].rule)
          IN  /\ rule \in {"exact", "anyof", "unordered_equal"}
              /\ compare_positions(self.correct_positions[index].targets,
                                   self.user_positions[index], rule)

\* grade(user_input, correct_answer)
draganddrop_grade(user_input, correct_answer) ==
    DragAndDrop_grade(populate(correct_answer, user_input))

ListAnswer(groups) == [format |-> "list", items |-> groups]
DictAnswer(items) == [format |-> "dict", items |-> items]

\* the cases of tests_draganddrop.py whose targets are target names
Test_DragAndDrop_Grade ==
    \* test_alternative_correct_answer
    /\ draganddrop_grade(<<<<"name_with_icon", "t1">>, <<"name_with_icon",
          "t1">>, <<"name_with_icon", "t1">>, <<"name4", "t1">>, <<"name4",
          "t1">>>>, ListAnswer(<<Group(<<"name4">>, <<"t1", "t1">>, "exact"),
          Group(<<"name_with_icon">>, <<"t1", "t1", "t1">>, "exact")>>))
    \* test_correct_answer_not_has_key_from_user_answer
    /\ ~draganddrop_grade(<<<<"1", "t1">>, <<"name_with_icon", "t2">>>>,
          DictAnswer(<<<<"3", "t3">>, <<"name_with_icon", "t2">>>>))
    \* test_label_10_targets_with_a_b_c_
    /\ draganddrop_grade(<<<<"a", "target1">>, <<"b", "target2">>, <<"c",
          "target3">>, <<"a", "target4">>, <<"b", "target5">>, <<"c",
          "target6">>, <<"a", "target7">>, <<"b", "target8">>, <<"c",
          "target9">>, <<"a", "target10">>>>, ListAnswer(<<Group(<<"a">>,
          <<"target1", "target4", "target7", "target10">>, "unordered_equal"),
          Group(<<"b">>, <<"target2", "target5", "target8">>,
          "unordered_equal"), Group(<<"c">>, <<"target3", "target6",
          "target9">>, "unordered_equal")>>))
    \* test_label_10_targets_with_a_b_c_false
    /\ ~draganddrop_grade(<<<<"a", "target1">>, <<"b", "target2">>, <<"c",
          "target3">>, <<"a", "target4">>, <<"b", "target5">>, <<"c",
          "target6">>, <<"a", "target7">>, <<"b", "target8">>, <<"c",
          "target9">>, <<"a", "target1">>>>, ListAnswer(<<Group(<<"a">>,
          <<"target1", "target4", "target7", "target10">>, "unordered_equal"),
          Group(<<"b">>, <<"target2", "target5", "target8">>,
          "unordered_equal"), Group(<<"c">>, <<"target3", "target6",
          "target9">>, "unordered_equal")>>))
    \* test_label_10_targets_with_a_b_c_multiple
    /\ draganddrop_grade(<<<<"a", "target1">>, <<"b", "target2">>, <<"c",
          "target3">>, <<"b", "target5">>, <<"c", "target6">>, <<"a",
          "target7">>, <<"b", "target8">>, <<"c", "target9">>, <<"a",
          "target1">>>>, ListAnswer(<<Group(<<"a", "a", "a">>, <<"target1",
          "target4", "target7", "target10">>, "anyof+number"), Group(<<"b", "b",
          "b">>, <<"target2", "target5", "target8">>, "anyof+number"),
          Group(<<"c", "c", "c">>, <<"target3", "target6", "target9">>,
          "anyof+number")>>))
    \* test_label_10_targets_with_a_b_c_multiple_false
    /\ ~draganddrop_grade(<<<<"a", "target1">>, <<"b", "target2">>, <<"c",
          "target3">>, <<"a", "target4">>, <<"b", "target5">>, <<"c",
          "target6">>, <<"a", "target7">>, <<"b", "target8">>, <<"c",
          "target9">>, <<"a", "target1">>>>, ListAnswer(<<Group(<<"a", "a",
          "a">>, <<"target1", "target4", "target7", "target10">>,
          "anyof+number"), Group(<<"b", "b", "b">>, <<"target2", "target5",
          "target8">>, "anyof+number"), Group(<<"c", "c", "c">>, <<"target3",
          "target6", "target9">>, "anyof+number")>>))
    \* test_label_10_targets_with_a_b_c_reused
    /\ draganddrop_grade(<<<<"a", "target1">>, <<"b", "target2">>, <<"c",
          "target3">>, <<"b", "target5">>, <<"c", "target6">>, <<"b",
          "target8">>, <<"c", "target9">>, <<"a", "target10">>>>,
          ListAnswer(<<Group(<<"a", "a">>, <<"target1", "target10">>,
          "unordered_equal+number"), Group(<<"b", "b", "b">>, <<"target2",
          "target5", "target8">>, "unordered_equal+number"), Group(<<"c", "c",
          "c">>, <<"target3", "target6", "target9">>,
          "unordered_equal+number")>>))
    \* test_label_10_targets_with_a_b_c_reused_false
    /\ ~draganddrop_grade(<<<<"a", "target1">>, <<"b", "target2">>, <<"c",
          "target3">>, <<"b", "target5">>, <<"a", "target8">>, <<"c",
          "target6">>, <<"b", "target8">>, <<"c", "target9">>, <<"a",
          "target10">>>>, ListAnswer(<<Group(<<"a", "a">>, <<"target1",
          "target10">>, "unordered_equal+number"), Group(<<"b", "b", "b">>,
          <<"target2", "target5", "target8">>, "unordered_equal+number"),
          Group(<<"c", "c", "c">>, <<"target3", "target6", "target9">>,
          "unordered_equal+number")>>))
    \* test_lcao_correct
    /\ draganddrop_grade(<<<<"1", "s_left">>, <<"5", "s_right">>, <<"4",
          "s_sigma">>, <<"6", "s_sigma_star">>, <<"7", "p_left_1">>, <<"8",
          "p_left_2">>, <<"10", "p_right_1">>, <<"9", "p_right_2">>, <<"2",
          "p_pi_1">>, <<"3", "p_pi_2">>, <<"11", "s_sigma_name">>, <<"13",
          "s_sigma_star_name">>, <<"15", "p_pi_name">>, <<"16",
          "p_pi_star_name">>, <<"12", "p_sigma_name">>, <<"14",
          "p_sigma_star_name">>>>, ListAnswer(<<Group(<<"1", "2", "3", "4", "5",
          "6">>, <<"s_left", "s_right", "s_sigma", "s_sigma_star", "p_pi_1",
          "p_pi_2">>, "anyof"), Group(<<"7", "8", "9", "10">>, <<"p_left_1",
          "p_left_2", "p_right_1", "p_right_2">>, "anyof"), Group(<<"11",
          "12">>, <<"s_sigma_name", "p_sigma_name">>, "anyof"), Group(<<"13",
          "14">>, <<"s_sigma_star_name", "p_sigma_star_name">>, "anyof"),
          Group(<<"15">>, <<"p_pi_name">>, "anyof"), Group(<<"16">>,
          <<"p_pi_star_name">>, "anyof")>>))
    \* test_lcao_extra_element_incorrect
    /\ ~draganddrop_grade(<<<<"1", "s_left">>, <<"5", "s_right">>, <<"4",
          "s_sigma">>, <<"6", "s_sigma_star">>, <<"7", "p_left_1">>, <<"8",
          "p_left_2">>, <<"17", "p_left_3">>, <<"10", "p_right_1">>, <<"9",
          "p_right_2">>, <<"2", "p_pi_1">>, <<"3", "p_pi_2">>, <<"11",
          "s_sigma_name">>, <<"13", "s_sigma_star_name">>, <<"15",
          "p_pi_name">>, <<"16", "p_pi_star_name">>, <<"12", "p_sigma_name">>,
          <<"14", "p_sigma_star_name">>>>, ListAnswer(<<Group(<<"1", "2", "3",
          "4", "5", "6">>, <<"s_left", "s_right", "s_sigma", "s_sigma_star",
          "p_pi_1", "p_pi_2">>, "anyof"), Group(<<"7", "8", "9", "10">>,
          <<"p_left_1", "p_left_2", "p_right_1", "p_right_2">>, "anyof"),
          Group(<<"11", "12">>, <<"s_sigma_name", "p_sigma_name">>, "anyof"),
          Group(<<"13", "14">>, <<"s_sigma_star_name", "p_sigma_star_name">>,
          "anyof"), Group(<<"15">>, <<"p_pi_name">>, "anyof"), Group(<<"16">>,
          <<"p_pi_star_name">>, "anyof")>>))
    \* test_mixed_reuse_and_not_reuse
    /\ draganddrop_grade(<<<<"a", "target1">>, <<"b", "target2">>, <<"c",
          "target3">>, <<"a", "target4">>, <<"a", "target5">>>>,
          ListAnswer(<<Group(<<"a", "b">>, <<"target1", "target2", "target4",
          "target5">>, "anyof"), Group(<<"c">>, <<"target3">>, "exact")>>))
    \* test_mixed_reuse_and_not_reuse_number
    /\ draganddrop_grade(<<<<"a", "target1">>, <<"b", "target2">>, <<"c",
          "target3">>, <<"a", "target4">>>>, ListAnswer(<<Group(<<"a", "a",
          "b">>, <<"target1", "target2", "target4">>, "anyof+number"),
          Group(<<"c">>, <<"target3">>, "exact")>>))
    \* test_mixed_reuse_and_not_reuse_number_false
    /\ ~draganddrop_grade(<<<<"a", "target1">>, <<"b", "target2">>, <<"c",
          "target3">>, <<"a", "target4">>, <<"a", "target10">>>>,
          ListAnswer(<<Group(<<"a", "a", "b">>, <<"target1", "target2",
          "target4", "target10">>, "anyof_number"), Group(<<"c">>,
          <<"target3">>, "exact")>>))
    \* test_multiple_images_per_target_false
    /\ ~draganddrop_grade(<<<<"1", "t1">>, <<"name_with_icon", "t2">>, <<"2",
          "t1">>>>, DictAnswer(<<<<"1", "t2">>, <<"name_with_icon", "t2">>,
          <<"2", "t1">>>>))
    \* test_multiple_images_per_target_true
    /\ draganddrop_grade(<<<<"1", "t1">>, <<"name_with_icon", "t2">>, <<"2",
          "t1">>>>, DictAnswer(<<<<"1", "t1">>, <<"name_with_icon", "t2">>,
          <<"2", "t1">>>>))
    \* test_position_and_targets
    /\ draganddrop_grade(<<<<"1", "t1">>, <<"name_with_icon", "t2">>>>,
          DictAnswer(<<<<"1", "t1">>, <<"name_with_icon", "t2">>>>))
    \* test_reuse_draggable_no_mupliples
    /\ draganddrop_grade(<<<<"1", "target1">>, <<"2", "target2">>, <<"1",
          "target3">>, <<"2", "target4">>, <<"2", "target5">>, <<"3",
          "target6">>>>, ListAnswer(<<Group(<<"1">>, <<"target1", "target3">>,
          "anyof"), Group(<<"2">>, <<"target2", "target4", "target5">>,
          "anyof"), Group(<<"3">>, <<"target6">>, "anyof")>>))
    \* test_reuse_draggable_with_mupliples
    /\ draganddrop_grade(<<<<"1", "target1">>, <<"2", "target2">>, <<"1",
          "target1">>, <<"2", "target4">>, <<"2", "target4">>, <<"3",
          "target6">>>>, ListAnswer(<<Group(<<"1">>, <<"target1", "target3">>,
          "anyof"), Group(<<"2">>, <<"target2", "target4">>, "anyof"),
          Group(<<"3">>, <<"target6">>, "anyof")>>))
    \* test_reuse_many_draggable_with_mupliples
    /\ draganddrop_grade(<<<<"1", "target1">>, <<"2", "target2">>, <<"1",
          "target1">>, <<"2", "target4">>, <<"2", "target4">>, <<"3",
          "target6">>, <<"4", "target3">>, <<"5", "target4">>, <<"5",
          "target5">>, <<"6", "target2">>>>, ListAnswer(<<Group(<<"1", "4">>,
          <<"target1", "target3">>, "anyof"), Group(<<"2", "6">>, <<"target2",
          "target4">>, "anyof"), Group(<<"5">>, <<"target4", "target5">>,
          "anyof"), Group(<<"3">>, <<"target6">>, "anyof")>>))
    \* test_reuse_many_draggable_with_mupliples_wrong
    /\ ~draganddrop_grade(<<<<"1", "target1">>, <<"2", "target2">>, <<"1",
          "target1">>, <<"2", "target3">>, <<"2", "target4">>, <<"3",
          "target6">>, <<"4", "target3">>, <<"5", "target4">>, <<"5",
          "target5">>, <<"6", "target2">>>>, ListAnswer(<<Group(<<"1", "4">>,
          <<"target1", "target3">>, "anyof"), Group(<<"2", "6">>, <<"target2",
          "target4">>, "anyof"), Group(<<"5">>, <<"target4", "target5">>,
          "anyof"), Group(<<"3">>, <<"target6">>, "anyof")>>))
    \* test_targets_false
    /\ ~draganddrop_grade(<<<<"1", "t1">>, <<"name_with_icon", "t2">>>>,
          DictAnswer(<<<<"1", "t3">>, <<"name_with_icon", "t2">>>>))
    \* test_targets_true
    /\ draganddrop_grade(<<<<"1", "t1">>, <<"name_with_icon", "t2">>>>,
          DictAnswer(<<<<"1", "t1">>, <<"name_with_icon", "t2">>>>))
    \* test_3
    /\ ~compare_positions(<<"a", "b">>, <<"a", "b", "c">>, "anyof")
    \* test_4
    /\ compare_positions(<<"a", "b", "c">>, <<"a", "b">>, "anyof")
    \* test_5
    /\ ~compare_positions(<<"a", "b", "c">>, <<"a", "c", "b">>, "exact")
    \* test_6
    /\ compare_positions(<<"a", "b", "c">>, <<"a", "c", "b">>, "anyof")
    \* test_7
    /\ ~compare_positions(<<"a", "b", "b">>, <<"a", "c", "b">>, "anyof")


\* the draggables and targets of a problem, and the draggable "x" that no
\* correct answer holds
DraggableLists == {<<"a">>, <<"a", "a">>, <<"a", "b">>}
TargetLists == {<<"t1">>, <<"t1", "t2">>}
Rules == {"exact", "anyof", "unordered_equal", "anyof+number",
          "unordered_equal+number", "anyof_number"}
FirstGroups == { Group(d, t, r) : d \in DraggableLists, t \in TargetLists,
                                  r \in Rules }
SecondGroups == { Group(<<"c">>, <<"t3">>, r) : r \in {"exact", "anyof"} }
CorrectAnswers ==
    { ListAnswer(<<g>>) : g \in FirstGroups }
        \cup { ListAnswer(<<g, h>>) : g \in FirstGroups, h \in SecondGroups }
        \cup { DictAnswer(<<<<"a", t>>>>) : t \in {"t1", "t2"} }
        \cup { DictAnswer(<<<<"a", t>>, <<"c", "t3">>>>) : t \in {"t1", "t2"} }
Dropped == ({"a", "b", "x"} \X {"t1", "t2"}) \cup {<<"c", "t3">>, <<"c", "t1">>}
UserInputs == UNION { [1..n -> Dropped] : n \in 0..MaxDropped }

InitDnd ==
    /\ AsyncIdle
    /\ fn_in \in [user_input : UserInputs, correct_answer : CorrectAnswers]
    /\ fn_out = None

\* grade(user_input, correct_answer)
DndGrade ==
    /\ fn_out = None
    /\ fn_out' = Some(draganddrop_grade(fn_in.user_input, fn_in.correct_answer))
    /\ UNCHANGED <<kind, max_score, now, cmap, sent, last, fn_in, coe>>

NextDnd == DndGrade

SpecDnd == InitDnd /\ [][NextDnd]_vars


\* --- C20, stated apart from populate and grade: on the indices of the
\* user's answer
DndGroups == CorrectAnswerList(fn_in.correct_answer)
NamesOf(seq) == { seq[i] : i \in DOMAIN seq }
\* the places of the user's entries whose draggable is listed in group g
PlacedIn(g) ==
    { j \in DOMAIN fn_in.user_input :
        fn_in.user_input[j][1] \in NamesOf(g.draggables) }
\* a draggable of the user that no group lists
ExcessDraggable ==
    \E j \in DOMAIN fn_in.user_input :
        \A i \in DOMAIN DndGroups : j \notin PlacedIn(DndGroups[i])
\* the user's draggables of group g are the listed ones: each as often as
\* listed under a '+number' rule, otherwise each at least once and the list
\* without repetition
DraggablesMatch(g) ==
    LET placed(d) == Cardinality({ j \in PlacedIn(g) : fn_in.user_input[j][1] = d })
    IN  IF g.rule \in {"anyof+number", "unordered_equal+number"}
        THEN \A d \in NamesOf(g.draggables) : placed(d) = Count(g.draggables, d)
        ELSE /\ \A d \in NamesOf(g.draggables) : placed(d) >= 1
             /\ Cardinality(NamesOf(g.draggables)) = Len(g.draggables)
\* the user's targets of group g satisfy the rule of g
TargetsMatch(g) ==
    LET P == PlacedIn(g)
        rank(j) == Cardinality({ k \in P : k <= j })
    IN  CASE g.rule = "exact" ->
                /\ Cardinality(P) = Len(g.targets)
                /\ \A j \in P : fn_in.user_input[j][2] = g.targets[rank(j)]
          [] g.rule \in {"anyof", "anyof+number"} ->
                \A j \in P : fn_in.user_input[j][2] \in NamesOf(g.targets)
          [] g.rule \in {"unordered_equal", "unordered_equal+number"} ->
                { fn_in.user_input[j][2] : j \in P } = NamesOf(g.targets)
          [] OTHER -> FALSE
GroupPasses(g) == DraggablesMatch(g) /\ TargetsMatch(g)

\* C20: grade returns true iff every group of the correct answer passes
\* (the user's draggables of the group are the group's and their targets
\* satisfy the group's rule) and no draggable of the user lies outside all
\* groups; so a draggable that belongs to no group makes grade return false.
C20_GradeIffEveryGroupPasses ==
    fn_out # None =>
        /\ fn_out[1] = (/\ ~ExcessDraggable
                        /\ \A i \in DOMAIN DndGroups : GroupPasses(DndGroups[i]))
        /\ ExcessDraggable => fn_out[1] = FALSE

\* an extra draggable alone makes the answer wrong: every group passes
C20_Witness ==
    /\ fn_out = Some(FALSE)
    /\ ExcessDraggable
    /\ Len(DndGroups) = 2
    /\ \A i \in DOMAIN DndGroups : GroupPasses(DndGroups[i])

\* both groups pass and nothing is extra
C20_WitnessTrue ==
    /\ fn_out = Some(TRUE)
    /\ Len(DndGroups) = 2
    /\ Len(fn_in.user_input) = MaxDropped


\* ------------------------------ DragAndDrop.compare_positions on its own
\* longest list of targets
MaxTargets == 3
TargetNames == {"a", "b", "c"}
TargetSeqs == UNION { [1..n -> TargetNames] : n \in 0..MaxTargets }
Flags == {"exact", "anyof", "unordered_equal"}

InitCompare ==
    /\ AsyncIdle
    /\ fn_in \in [correct : TargetSeqs, user : TargetSeqs, flag : Flags]
    /\ fn_out = None

\* dnd.compare_positions(correct, user, flag)
ComparePositions ==
    /\ fn_out = None
    /\ fn_out' = Some(compare_positions(fn_in.correct, fn_in.user, fn_in.flag))
    /\ UNCHANGED <<kind, max_score, now, cmap, sent, last, fn_in, coe>>

NextCompare == ComparePositions

SpecCompare == InitCompare /\ [][NextCompare]_vars

\* C21 as stated: 'anyof' is true iff every correct element appears among
\* the user elements, whatever else the user placed.
C21_AnyofCoversCorrect ==
    (fn_out # None /\ fn_in.flag = "anyof") =>
        fn_out[1] = (NamesOf(fn_in.correct) \subseteq NamesOf(fn_in.user))

\* C21 amended: 'anyof' is true iff the user elements are among the correct
\* ones; correct elements that the user left out do not make it false, and
\* a user element outside the correct list does.
C21_AnyofUserAmongCorrect ==
    (fn_out # None /\ fn_in.flag = "anyof") =>
        /\ fn_out[1] = (NamesOf(fn_in.user) \subseteq NamesOf(fn_in.correct))
        /\ (NamesOf(fn_in.user) \ NamesOf(fn_in.correct) # {}) => ~fn_out[1]

\* the user left a correct element out and the rule still holds
C21_Witness ==
    /\ fn_out = Some(TRUE)
    /\ fn_in.flag = "anyof"
    /\ fn_in.user # <<>>
    /\ NamesOf(fn_in.correct) \ NamesOf(fn_in.user) # {}


\* C22: 'anyof' holds iff each user element, at whatever place, equals the
\* correct element at some place; so a user list that is a part of the
\* correct list passes and one with an element outside it fails.
C22_AnyofIffEachUserElementCorrect ==
    (fn_out # None /\ fn_in.flag = "anyof") =>
        /\ fn_out[1] <=> (\A i \in DOMAIN fn_in.user :
                             \E j \in DOMAIN fn_in.correct :
                                 fn_in.user[i] = fn_in.correct[j])
        /\ (fn_in.correct = <<"a", "b", "c">> /\ fn_in.user = <<"a", "b">>)
               => fn_out[1]
        /\ (fn_in.correct = <<"a", "b">> /\ fn_in.user = <<"a", "b", "c">>)
               => ~fn_out[1]

\* test_4: correct [a, b, c], user [a, b] passes
C22_Witness ==
    /\ fn_out = Some(TRUE)
    /\ fn_in = [correct |-> <<"a", "b", "c">>, user |-> <<"a", "b">>,
                flag |-> "anyof"]

\* test_3: correct [a, b], user [a, b, c] fails
C22_WitnessExtra ==
    /\ fn_out = Some(FALSE)
    /\ fn_in = [correct |-> <<"a", "b">>, user |-> <<"a", "b", "c">>,
                flag |-> "anyof"]


\* the rearrangements of the places of seq
Rearrangements(seq) ==
    { p \in [DOMAIN seq -> DOMAIN seq] :
        \A i, j \in DOMAIN seq : p[i] = p[j] => i = j }
Permuted(seq, p) == [i \in DOMAIN seq |-> seq[p[i]]]
Distinct(seq) == \A i, j \in DOMAIN seq : seq[i] = seq[j] => i = j

\* C23: 'anyof' and 'unordered_equal' give the same result for every
\* rearrangement of the user list; 'exact' fails for a user list that is a
\* rearrangement, other than the identity, of a correct list of distinct
\* names; 'unordered_equal' passes iff the user elements and the correct
\* elements are the same set.
C23_OrderSensitivity ==
    fn_out # None =>
        /\ fn_in.flag \in {"anyof", "unordered_equal"} =>
              \A p \in Rearrangements(fn_in.user) :
                  compare_positions(fn_in.correct, Permuted(fn_in.user, p),
                                    fn_in.flag) = fn_out[1]
        /\ (/\ fn_in.flag = "exact"
            /\ Distinct(fn_in.correct)
            /\ \E p \in Rearrangements(fn_in.correct) :
                  /\ fn_in.user = Permuted(fn_in.correct, p)
                  /\ \E i \in DOMAIN p : p[i] # i) => ~fn_out[1]
        /\ fn_in.flag = "unordered_equal" =>
              fn_out[1] = (NamesOf(fn_in.user) = NamesOf(fn_in.correct))

\* test_5: correct [a, b, c], user [a, c, b] fails 'exact'
C23_Witness ==
    /\ fn_out = Some(FALSE)
    /\ fn_in = [correct |-> <<"a", "b", "c">>, user |-> <<"a", "c", "b">>,
                flag |-> "exact"]

\* a rearranged user list passes 'unordered_equal'
C23_WitnessUnordered ==
    /\ fn_out = Some(TRUE)
    /\ fn_in = [correct |-> <<"a", "b", "c">>, user |-> <<"c", "a", "b">>,
                flag |-> "unordered_equal"]


\* --- C24: groups with a '+number' rule
NumberRules == {"anyof+number", "unordered_equal+number"}
\* the other groups pass and no draggable is extra: group i decides
Decides(i) ==
    /\ ~ExcessDraggable
    /\ \A k \in DOMAIN DndGroups : k # i => GroupPasses(DndGroups[k])
\* each draggable of g is placed as often as g lists it
EachPlacedAsListed(g) ==
    \A d \in NamesOf(g.draggables) :
        Cardinality({ j \in PlacedIn(g) : fn_in.user_input[j][1] = d })
            = Count(g.draggables, d)
\* as many placements of draggables of g as g lists draggables
AsManyPlacedAsListed(g) == Cardinality(PlacedIn(g)) = Len(g.draggables)

C24_WitnessReuse ==
    /\ fn_out = Some(FALSE)
    /\ fn_in.correct_answer =
          ListAnswer(<<Group(<<"a", "a">>, <<"t1", "t2">>,
                             "unordered_equal+number")>>)
    /\ fn_in.user_input = <<<<"a", "t1">>, <<"a", "t1">>>>

\* a '+number' group passes
C24_WitnessPass ==
    /\ fn_out = Some(TRUE)
    /\ \E i \in DOMAIN DndGroups :
          /\ DndGroups[i].rule \in NumberRules
          /\ Len(DndGroups[i].draggables) = 2


\* ------------------------------------------------------ PositionsCompare
\* (capa/verifiers/draganddrop.py, known here by Test_PositionsCompare)
\* default radius, in pixels, around a correct position [x, y]
DefaultRadius == 10
\* largest coordinate of a correct position, of a user position, and the
\* largest radius an author gives
MaxCorrectCoord == 1
MaxUserCoord == 12
MaxRadius == 12

\* a target name, a position [x, y] and a position [[x, y], radius]
TargetName(s) == [kind |-> "name", name |-> s, x |-> 0, y |-> 0, radius |-> None]
Position(x, y) == [kind |-> "position", name |-> "", x |-> x, y |-> y, radius |-> None]
PositionRadius(x, y, r) ==
    [kind |-> "position", name |-> "", x |-> x, y |-> y, radius |-> Some(r)]

\* coordinate_positions_compare with a strict bound
coordinate_positions_compare_strict(self, other) ==
    LET r == IF self.radius # None THEN self.radius[1]
             ELSE IF other.radius # None THEN other.radius[1]
             ELSE DefaultRadius
        dx == self.x - other.x
        dy == self.y - other.y
    IN  dx * dx + dy * dy < r * r

\* PositionsCompare.coordinate_positions_compare: the two points are no
\* farther apart than the radius; the radius is the one given with a
\* position, else the default
coordinate_positions_compare(self, other) ==
    LET r == IF self.radius # None THEN self.radius[1]
             ELSE IF other.radius # None THEN other.radius[1]
             ELSE DefaultRadius
        dx == self.x - other.x
        dy == self.y - other.y
    IN  dx * dx + dy * dy <= r * r

\* PositionsCompare(self) == PositionsCompare(other)
PositionsCompare(self, other) ==
    IF self.kind = "position" /\ other.kind = "position"
    THEN coordinate_positions_compare(self, other)
    ELSE IF self.kind = "name" /\ other.kind = "name"
    THEN PositionsCompare_eq(self.name, other.name)
    ELSE FALSE

\* the cases of Test_PositionsCompare and of the position tests of
\* Test_DragAndDrop_Grade with whole coordinates
Test_PositionsCompare ==
    /\ PositionsCompare(PositionRadius(1, 2, 40), Position(1, 3))
    /\ ~PositionsCompare(Position(1, 12), Position(1, 1))
    /\ ~PositionsCompare(PositionRadius(1, 2, 12), Position(1, 15))
    /\ PositionsCompare(Position(1, 11), Position(1, 1))
    /\ ~PositionsCompare(Position(1, 2), TargetName("1"))
    /\ PositionsCompare(TargetName("abc"), TargetName("abc"))
    /\ ~PositionsCompare(TargetName("abd"), TargetName("abe"))
    /\ PositionsCompare(Position(10, 10), Position(10, 10))
    /\ PositionsCompare(PositionRadius(10, 10, 4), PositionRadius(10, 10, 4))
    /\ ~PositionsCompare(Position(25, 25), Position(10, 10))
    /\ PositionsCompare(Position(14, 14), Position(10, 10))
    /\ PositionsCompare(PositionRadius(40, 10, 30), Position(10, 10))
    /\ ~PositionsCompare(PositionRadius(40, 10, 29), Position(10, 10))
    /\ PositionsCompare(Position(1, 1), Position(2, 3))
    /\ ~PositionsCompare(Position(1, 1), Position(2, 13))

CorrectPositions ==
    { Position(x, y) : x, y \in 0..MaxCorrectCoord }
        \cup { PositionRadius(x, y, r) : x, y \in 0..MaxCorrectCoord,
                                         r \in 0..MaxRadius }
        \cup { TargetName(s) : s \in {"t1", "1"} }
UserPositions ==
    { Position(x, y) : x, y \in 0..MaxUserCoord }
        \cup { TargetName(s) : s \in {"t1", "1"} }

InitPositions ==
    /\ AsyncIdle
    /\ fn_in \in [correct : CorrectPositions, user : UserPositions]
    /\ fn_out = None

\* PositionsCompare(correct) == PositionsCompare(user)
ComparePosition ==
    /\ fn_out = None
    /\ fn_out' = Some(PositionsCompare(fn_in.correct, fn_in.user))
    /\ UNCHANGED <<kind, max_score, now, cmap, sent, last, fn_in, coe>>

NextPositions == ComparePosition

SpecPositions == InitPositions /\ [][NextPositions]_vars

\* the radius around the correct position of the call
RadiusOf(p) == IF p.radius = None THEN 10 ELSE p.radius[1]
\* the square of the distance between the two positions of the call
Distance2 ==
    (fn_in.user.x - fn_in.correct.x) * (fn_in.user.x - fn_in.correct.x)
        + (fn_in.user.y - fn_in.correct.y) * (fn_in.user.y - fn_in.correct.y)

\* C25: two numeric positions are equal iff the user point is no farther
\* from the correct point than the radius (10 pixels for [x, y], the
\* author's for [[x, y], radius]): at distance exactly the radius they are
\* equal, farther apart they are not; a numeric position never equals a
\* target name.
C25_EqualIffWithinRadius ==
    fn_out # None =>
        /\ (fn_in.correct.kind = "position" /\ fn_in.user.kind = "position") =>
              /\ fn_out[1] <=>
                    Distance2 <= RadiusOf(fn_in.correct) * RadiusOf(fn_in.correct)
              /\ Distance2 = RadiusOf(fn_in.correct) * RadiusOf(fn_in.correct)
                    => fn_out[1]
              /\ Distance2 > RadiusOf(fn_in.correct) * RadiusOf(fn_in.correct)
                    => ~fn_out[1]
        /\ fn_in.correct.kind # fn_in.user.kind => ~fn_out[1]

\* a user point at distance exactly the default radius, off the axes
C25_Witness ==
    /\ fn_out = Some(TRUE)
    /\ fn_in.correct = Position(0, 0)
    /\ fn_in.user = Position(6, 8)

\* a user point just outside an author's radius
C25_WitnessOutside ==
    /\ fn_out = Some(FALSE)
    /\ fn_in.correct = PositionRadius(1, 1, 3)
    /\ fn_in.user = Position(1, 5)

\* a numeric position against a target name
C25_WitnessName ==
    /\ fn_out = Some(FALSE)
    /\ fn_in.correct.kind = "position"
    /\ fn_in.user.kind = "name"


\* ------------------------- OpenEndedResponse: the ratio score / max_score
\* largest max_score and largest score of the replies graded here
MaxRatioScore == 4

\* replies that hold every required tag, with a score up to max_score
InitRatio ==
    /\ AsyncIdle
    /\ fn_in \in { [maxscore |-> m,
                    score_msg |-> ScoreMsg("dict", tg, c, sc, msg, su)] :
                      m \in 1 .. MaxRatioScore, sc \in 0 .. MaxRatioScore,
                      tg \in {OpenEndedRequiredTags, OpenEndedTags},
                      c \in {FALSE}, msg \in GraderMsgs, su \in BOOLEAN }
    /\ fn_in.score_msg.score <= fn_in.maxscore
    /\ fn_out = None

\* OpenEndedResponse._parse_score_msg(score_msg)
ParseRatio ==
    /\ fn_out = None
    /\ fn_out' = Some(OpenEndedResponse_parse_score_msg(fn_in.maxscore,
                                                        fn_in.score_msg))
    /\ UNCHANGED <<kind, max_score, now, cmap, sent, last, fn_in, coe>>

NextRatio == ParseRatio

SpecRatio == InitRatio /\ [][NextRatio]_vars

\* C26: a valid reply is graded correct iff score / max_score >= 0.66, for
\* every score in 0..max_score; 3 of 4 is correct.
C26_CorrectIffTwoThirds ==
    (fn_out # None /\ fn_out[1].valid) =>
        /\ fn_out[1].correct <=>
              (100 * fn_in.score_msg.score >= 66 * fn_in.maxscore)
        /\ (fn_in.score_msg.score = 3 /\ fn_in.maxscore = 4) => fn_out[1].correct


\* --------------------------------------------- CombinedOpenEndedV1Module
\* (common/lib/xmodule/xmodule/combined_open_ended_modulev1.py)
\* largest number of tasks of a module
MaxTasks == 3
\* largest score a child task records (max_score of the module)
MaxChildScore == 1

\* states of the module and of a child task
INITIAL == "initial"
ASSESSING == "assessing"
DONE == "done"
\* (the module reads a child's state only to compare it with 'initial' and
\* with 'done': 'assessing' stands for 'post_assessment' as well)
ChildStates == {INITIAL, ASSESSING, DONE}

\* a <task> of the definition: the attributes min_score_to_attempt (default
\* 0) and max_score_to_attempt (default the module's max_score)
TaskXml(min, max) == [min_score_to_attempt |-> min, max_score_to_attempt |-> max]
TaskXmls == { TaskXml(0, MaxChildScore), TaskXml(1, 1) }
TaskXmlLists == UNION { [1..n -> TaskXmls] : n \in 1..MaxTasks }

\* the instance state of a child task: its state and latest_score() (None
\* while its history holds no score)
Child(state, score) == [state |-> state, score |-> score]

\* a < b where a or b may be None: Python 2 orders None below every number
py2_less(a, b) ==
    IF b = None THEN FALSE
    ELSE IF a = None THEN TRUE
    ELSE a[1] < b[1]

\* self.task_states[n] and self.task_xml[n] (n counts from 0)
task_state(self, n) == self.task_states[n + 1]
task_xml(self, n) == self.task_xml[n + 1]

\* check_allow_reset()
check_allow_reset(self) ==
    IF ~self.allow_reset /\ self.current_task_number > 0
    THEN LET last_score == task_state(self, self.current_task_number - 1).score
             current == task_xml(self, self.current_task_number)
         IN  IF \/ py2_less(last_score, Some(current.min_score_to_attempt))
                \/ py2_less(Some(current.max_score_to_attempt), last_score)
             THEN [self EXCEPT !.state = DONE, !.allow_reset = TRUE]
             ELSE self
    ELSE self

\* overwrite_state(current_task_state): an initial child takes over the
\* last answer and is assessing
overwrite_state(current_task_state) ==
    IF current_task_state.state = INITIAL
    THEN Child(ASSESSING, None)
    ELSE current_task_state

\* setup_next_task that does not store the state of a task reached for the
\* first time
setup_next_task_without_append(self, reset) ==
    LET has_state == Len(self.task_states) > self.current_task_number
        checked == IF self.current_task_number > 0
                   THEN check_allow_reset(self) ELSE self
        s == IF self.current_task_number > 0 /\ checked.allow_reset
             THEN [checked EXCEPT !.current_task_number = @ - 1]
             ELSE checked
    IN  IF ~has_state /\ s.current_task_number = 0
        THEN [s EXCEPT !.current_task = Child(INITIAL, None),
                       !.task_states = Append(@, Child(INITIAL, None)),
                       !.state = ASSESSING]
        ELSE IF ~has_state
        THEN [s EXCEPT !.current_task = Child(ASSESSING, None),
                       !.state = ASSESSING]
        ELSE LET current_task_state ==
                     task_state(self, self.current_task_number)
             IN  [s EXCEPT !.current_task =
                     IF s.current_task_number > 0 /\ ~reset
                     THEN overwrite_state(current_task_state)
                     ELSE current_task_state]

\* setup_next_task(reset)
setup_next_task(self, reset) ==
    LET has_state == Len(self.task_states) > self.current_task_number
        checked == IF self.current_task_number > 0
                   THEN check_allow_reset(self) ELSE self
        s == IF self.current_task_number > 0 /\ checked.allow_reset
             THEN [checked EXCEPT !.current_task_number = @ - 1]
             ELSE checked
    IN  IF ~has_state /\ s.current_task_number = 0
        THEN [s EXCEPT !.current_task = Child(INITIAL, None),
                       !.task_states = Append(@, Child(INITIAL, None)),
                       !.state = ASSESSING]
        ELSE IF ~has_state
        THEN [s EXCEPT !.current_task = Child(ASSESSING, None),
                       !.task_states = Append(@, Child(ASSESSING, None)),
                       !.state = ASSESSING]
        ELSE LET current_task_state ==
                     task_state(self, self.current_task_number)
             IN  [s EXCEPT !.current_task =
                     IF s.current_task_number > 0 /\ ~reset
                     THEN overwrite_state(current_task_state)
                     ELSE current_task_state]

\* __init__ without an instance state
CombinedOpenEndedV1Module_init(xml) ==
    setup_next_task([task_xml |-> xml,
                     current_task_number |-> 0,
                     task_states |-> <<>>,
                     state |-> INITIAL,
                     allow_reset |-> FALSE,
                     current_task |-> Child(INITIAL, None)], FALSE)

\* update_task_states that moves on whatever the state of the child is
update_task_states_always(self) ==
    IF ~self.allow_reset
    THEN LET s == [self EXCEPT
                      !.task_states[self.current_task_number + 1] =
                          self.current_task]
             next == s.current_task_number + 1
             moved == IF next >= Len(s.task_xml)
                      THEN [s EXCEPT !.state = DONE,
                                     !.current_task_number = Len(s.task_xml) - 1]
                      ELSE [s EXCEPT !.state = INITIAL,
                                     !.current_task_number = next]
         IN  [self |-> setup_next_task(moved, FALSE), changed |-> TRUE]
    ELSE [self |-> self, changed |-> FALSE]

\* update_task_states(): the module after the call and the value returned
update_task_states(self) ==
    IF ~self.allow_reset
    THEN LET s == [self EXCEPT
                      !.task_states[self.current_task_number + 1] =
                          self.current_task]
         IN  IF s.current_task.state = DONE
             THEN LET next == s.current_task_number + 1
                      moved == IF next >= Len(s.task_xml)
                               THEN [s EXCEPT !.state = DONE,
                                              !.current_task_number =
                                                  Len(s.task_xml) - 1]
                               ELSE [s EXCEPT !.state = INITIAL,
                                              !.current_task_number = next]
                  IN  [self |-> setup_next_task(moved, FALSE), changed |-> TRUE]
             ELSE [self |-> s, changed |-> FALSE]
    ELSE [self |-> self, changed |-> FALSE]

\* get_html_nonsystem(): get_context, get_html_base, update_task_states
get_html_nonsystem(self) == update_task_states(self).self

\* next_problem(get)
next_problem(self) == get_html_nonsystem(update_task_states(self).self)

\* the loop of reset over the tasks i, i + 1, ...; current_task.reset leaves
\* the child in its initial state, and keeps its history or not (keep)
RECURSIVE reset_loop(_, _, _)
reset_loop(self, i, keep) ==
    IF i >= Len(self.task_xml) THEN self
    ELSE LET s == setup_next_task([self EXCEPT !.current_task_number = i], TRUE)
             task == Child(INITIAL, IF keep THEN s.current_task.score ELSE None)
         IN  reset_loop([s EXCEPT
                            !.current_task = task,
                            !.task_states[s.current_task_number + 1] = task],
                        i + 1, keep)

\* reset(get)
reset(self, keep) ==
    IF self.state # DONE /\ ~self.allow_reset
    THEN self
    ELSE LET looped == reset_loop([self EXCEPT !.state = INITIAL,
                                               !.allow_reset = FALSE], 0, keep)
         IN  get_html_nonsystem(
                 setup_next_task([looped EXCEPT !.current_task_number = 0,
                                                !.allow_reset = FALSE], FALSE))

\* the last call: the operation, the module before an update_task_states
\* (None for the other operations) and the value returned
Call(op, pre, changed) == [op |-> op, pre |-> pre, changed |-> changed]

InitCombined ==
    /\ kind = "code"
    /\ max_score = 1
    /\ now = 0
    /\ cmap = CorrectMap_new
    /\ sent = <<>>
    /\ last = NoCall
    /\ fn_in = NoArg
    /\ fn_out = NoArg
    /\ \E xml \in TaskXmlLists : coe = CombinedOpenEndedV1Module_init(xml)

\* the current child task changes its state or records a score
\* (current_task.change_state, record_latest_score)
ChangeState ==
    /\ \E state \in ChildStates, score \in {None} \cup { Some(n) : n \in 0..MaxChildScore } :
          coe' = [coe EXCEPT !.current_task = Child(state, score)]
    /\ last' = Call("change_state", None, FALSE)
    /\ UNCHANGED <<kind, max_score, now, cmap, sent, fn_in, fn_out>>

UpdateTaskStates ==
    /\ coe' = update_task_states(coe).self
    /\ last' = Call("update_task_states", coe, update_task_states(coe).changed)
    /\ UNCHANGED <<kind, max_score, now, cmap, sent, fn_in, fn_out>>

NextProblem ==
    /\ coe' = next_problem(coe)
    /\ last' = Call("next_problem", None, FALSE)
    /\ UNCHANGED <<kind, max_score, now, cmap, sent, fn_in, fn_out>>

Reset ==
    /\ \E keep \in BOOLEAN : coe' = reset(coe, keep)
    /\ last' = Call("reset", None, FALSE)
    /\ UNCHANGED <<kind, max_score, now, cmap, sent, fn_in, fn_out>>

NextCombined ==
    \/ ChangeState
    \/ UpdateTaskStates
    \/ NextProblem
    \/ Reset

SpecCombined == InitCombined /\ [][NextCombined]_vars


\* the module before the last update_task_states
Before == last.pre
\* update_task_states was the last call
Updated == last.op = "update_task_states"
\* the finished task was the last task of the module
WasLastTask == Before.current_task_number = Len(Before.task_xml) - 1

\* C27 (as stated): update_task_states returns True exactly when no reset is
\* pending and the current child task is 'done'; it then advances
\* current_task_number by one, or, after the last task, keeps it at the last
\* task and sets the module state to 'done'; in every other case it returns
\* False and leaves current_task_number and the module state unchanged.
C27_TrueAdvancesByOne ==
    Updated =>
        /\ last.changed <=>
               (~Before.allow_reset /\ Before.current_task.state = DONE)
        /\ last.changed =>
               IF WasLastTask
               THEN /\ coe.current_task_number = Before.current_task_number
                    /\ coe.state = DONE
               ELSE coe.current_task_number = Before.current_task_number + 1
        /\ ~last.changed =>
               /\ coe.current_task_number = Before.current_task_number
               /\ coe.state = Before.state


\* the score of the finished task keeps the student from the next task
Halted ==
    LET score == Before.current_task.score
        next == task_xml(Before, Before.current_task_number + 1)
    IN  \/ py2_less(score, Some(next.min_score_to_attempt))
        \/ py2_less(Some(next.max_score_to_attempt), score)

\* C27 (amended): update_task_states returns True exactly when no reset is
\* pending and the current child task is 'done'.  After the last task it then
\* keeps current_task_number and sets the module state to 'done'; after
\* another task it advances current_task_number by one when the score of the
\* finished task lies within min_score_to_attempt..max_score_to_attempt of
\* the next task, and otherwise keeps current_task_number and makes a reset
\* pending.  When it returns False, current_task_number and the module state
\* are unchanged.
C27_TrueAdvancesUnlessHalted ==
    Updated =>
        /\ last.changed <=>
               (~Before.allow_reset /\ Before.current_task.state = DONE)
        /\ last.changed /\ WasLastTask =>
               /\ coe.current_task_number = Before.current_task_number
               /\ coe.state = DONE
        /\ last.changed /\ ~WasLastTask /\ ~Halted =>
               /\ coe.current_task_number = Before.current_task_number + 1
               /\ ~coe.allow_reset
        /\ last.changed /\ ~WasLastTask /\ Halted =>
               /\ coe.current_task_number = Before.current_task_number
               /\ coe.allow_reset
        /\ ~last.changed =>
               /\ coe.current_task_number = Before.current_task_number
               /\ coe.state = Before.state


\* a finished task with a score below min_score_to_attempt of the next task:
\* True is returned and current_task_number stays
C27_Witness ==
    /\ Updated /\ last.changed /\ ~WasLastTask /\ Halted
    /\ Before.current_task.score = Some(0)
    /\ coe.current_task_number = Before.current_task_number

\* a finished task whose score admits the next task
C27_WitnessAdvance ==
    /\ Updated /\ last.changed /\ ~WasLastTask /\ ~Halted
    /\ coe.current_task_number = Before.current_task_number + 1

\* the last of several tasks is finished
C27_WitnessLast ==
    /\ Updated /\ last.changed /\ WasLastTask
    /\ Before.current_task_number > 0


\* C28: after any sequence of update_task_states, next_problem and reset
\* calls on a module with at least one task, current_task_number is an index
\* of task_xml and task_states holds an entry for it.
C28_TaskNumberInRange ==
    /\ Len(coe.task_xml) >= 1
    /\ 0 <= coe.current_task_number
    /\ coe.current_task_number < Len(coe.task_xml)
    /\ coe.current_task_number < Len(coe.task_states)

\* a module of several tasks was reset: every task has an entry in
\* task_states
C28_Witness ==
    /\ last.op = "reset"
    /\ Len(coe.task_states) = Len(coe.task_xml)
    /\ Len(coe.task_xml) > 1

\* the last task was finished: the task number was taken back from
\* len(task_xml) to the last index
C28_WitnessLast ==
    /\ Updated /\ last.changed /\ WasLastTask
    /\ coe.current_task_number = Len(coe.task_xml) - 1


\* ------------------------------ MultipleChoiceResponse.mc_setup_response
\* largest number of <choice> stanzas in a choicegroup
MaxStanzas == 3

\* str(i) for 0 <= i < 10
str(i) == <<"0", "1", "2", "3", "4", "5", "6", "7", "8", "9">>[i + 1]

\* "choice_" + text
prefixed(text) == <<"choice_", text>>

\* the loop of mc_setup_response over the <choice> stanzas from number k on;
\* a stanza is the name attribute its author gave (None without one), i is
\* the count of unnamed stanzas so far
RECURSIVE set_names(_, _, _)
set_names(stanzas, k, i) ==
    IF k > Len(stanzas) THEN <<>>
    ELSE IF stanzas[k] = None
    THEN <<prefixed(str(i))>> \o set_names(stanzas, k + 1, i + 1)
    ELSE <<prefixed(stanzas[k][1])>> \o set_names(stanzas, k + 1, i)

\* MultipleChoiceResponse.mc_setup_response: the choicegroup after the call
mc_setup_response(stanzas) ==
    [type |-> "MultipleChoice", names |-> set_names(stanzas, 1, 0)]

\* TrueFalseResponse.mc_setup_response
TrueFalseResponse_mc_setup_response(stanzas) ==
    [type |-> "TrueFalse", names |-> set_names(stanzas, 1, 0)]

\* name attributes an author gives
AuthorNames == {"0", "1", "a", "b"}
Stanzas == {None} \cup { Some(n) : n \in AuthorNames }
StanzaLists == UNION { [1..n -> Stanzas] : n \in 1..MaxStanzas }

InitChoices ==
    /\ AsyncIdle
    /\ fn_in \in [response_tag : {"multiplechoiceresponse", "truefalseresponse"},
                  stanzas : StanzaLists]
    /\ fn_out = None

McSetupResponse ==
    /\ fn_out = None
    /\ fn_in.response_tag = "multiplechoiceresponse"
    /\ fn_out' = Some(mc_setup_response(fn_in.stanzas))
    /\ UNCHANGED <<kind, max_score, now, cmap, sent, last, fn_in, coe>>

TrueFalseSetupResponse ==
    /\ fn_out = None
    /\ fn_in.response_tag = "truefalseresponse"
    /\ fn_out' = Some(TrueFalseResponse_mc_setup_response(fn_in.stanzas))
    /\ UNCHANGED <<kind, max_score, now, cmap, sent, last, fn_in, coe>>

NextChoices ==
    \/ McSetupResponse
    \/ TrueFalseSetupResponse

SpecChoices == InitChoices /\ [][NextChoices]_vars

\* the names the author gave are pairwise distinct
AuthorNamesDistinct ==
    \A j, k \in DOMAIN fn_in.stanzas :
        j # k /\ fn_in.stanzas[j] # None => fn_in.stanzas[j] # fn_in.stanzas[k]

\* C29: after mc_setup_response the names of the choices of the choicegroup
\* are pairwise distinct, for every mix of choices named by the author (with
\* distinct names, "0" among them) and unnamed choices.
C29_ChoiceNamesDistinct ==
    fn_out # None /\ AuthorNamesDistinct =>
        \A j, k \in DOMAIN fn_out[1].names :
            j # k => fn_out[1].names[j] # fn_out[1].names[k]


\* ------------------------------------- AssignmentFormatGrader.grade: drops
\* the entries kept, and 'the returned percent is not lower than the mean of
\* all the entries' (percent >= sum / m, as percent * m >= sum)
KeptEntries == (1 .. EntryCount) \ DroppedEntries
NotLowerThanMean ==
    RatLeq(PercentSum(1 .. EntryCount),
           RatMul(fn_out[1].percent, Rat(EntryCount, 1)))

\* C30 (as stated): of the m = max(min_count, number of sections) entries
\* exactly min(drop_count, m) are marked as dropped, no dropped entry has a
\* percent higher than a kept entry, and (every earned <= possible) the
\* returned percent lies in [0, 1] and is not lower than the mean of all m
\* entries.
C30_DropsNeverLowerPercent ==
    fn_out # None =>
        /\ Cardinality(DroppedEntries) =
             (IF fn_in.self.drop_count < EntryCount THEN fn_in.self.drop_count
              ELSE EntryCount)
        /\ \A i \in DroppedEntries, j \in KeptEntries :
             RatLeq(EntryPercent(i), EntryPercent(j))
        /\ RatLeq(RatZero, fn_out[1].percent)
        /\ RatLeq(fn_out[1].percent, Rat(1, 1))
        /\ EntryCount > 0 => NotLowerThanMean

\* C30 (amended): exactly min(drop_count, m) entries are marked as dropped,
\* no dropped entry has a percent higher than a kept entry, the returned
\* percent lies in [0, 1], and it is not lower than the mean of all m entries
\* when drop_count < m; when drop_count >= m every entry is dropped and the
\* returned percent is 0.
C30_DropsNeverLowerPercentWhileSomeKept ==
    fn_out # None =>
        /\ Cardinality(DroppedEntries) =
             (IF fn_in.self.drop_count < EntryCount THEN fn_in.self.drop_count
              ELSE EntryCount)
        /\ \A i \in DroppedEntries, j \in KeptEntries :
             RatLeq(EntryPercent(i), EntryPercent(j))
        /\ RatLeq(RatZero, fn_out[1].percent)
        /\ RatLeq(fn_out[1].percent, Rat(1, 1))
        /\ fn_in.self.drop_count < EntryCount => NotLowerThanMean
        /\ fn_in.self.drop_count >= EntryCount =>
             /\ KeptEntries = {}
             /\ fn_out[1].percent = RatZero

\* one of three entries is dropped and the percent is above the mean of the
\* three
C30_Witness ==
    /\ fn_out # None
    /\ EntryCount = 3
    /\ fn_in.self.drop_count = 1
    /\ Cardinality(DroppedEntries) = 1
    /\ NotLowerThanMean
    /\ RatMul(fn_out[1].percent, Rat(3, 1)) # PercentSum(1 .. 3)

\* every entry is dropped although one has a positive percent
C30_WitnessAllDropped ==
    /\ fn_out # None
    /\ EntryCount > 0
    /\ fn_in.self.drop_count >= EntryCount
    /\ \E i \in 1 .. EntryCount : EntryPercent(i) # RatZero
    /\ fn_out[1].percent = RatZero

====
